---- MODULE Spec2Model ----
(***************************************************************************)
(* A model of github.com/miku/span:                                        *)
(*   - the batching producers crossref.Iterate and genios.Iterate, each a  *)
(*     goroutine that feeds an unbuffered channel read by a consumer;      *)
(*   - the moving-wall functions of package holdings (ParseDelay, Delay).  *)
(*                                                                         *)
(* Spec / FairSpec run one Iterate call over one input.  CallSpec applies  *)
(* the pure functions to inputs drawn from bounded sets.                   *)
(***************************************************************************)
EXTENDS Integers, Sequences, FiniteSets, TLC

\* Batch size of the model.  It stands for crossref.BatchSize (25000) and
\* genios.batchSize (2000); the code compares the counter with it and uses it
\* for nothing else.
BatchSize == 2

\* Longest input, in units (lines for crossref, XML tokens for genios).
MaxInput == 5

VARIABLES
    adapter,    \* "crossref" | "genios": which Iterate runs
    input,      \* the units the reader yields, in order
    ending,     \* what the reader yields after the last unit
    pos,        \* index of the next unit to read
    pc,         \* position of the producer goroutine
    i,          \* the counter i of Iterate
    items,      \* slice header of batch.Items (crossref) or docs (genios)
    out,        \* slice header of the Items of the batch in the pending send
    heap,       \* backing arrays of the slices: heap[ptr] is one array
    received,   \* slice headers of the Items of the batches received, in order
    snap,       \* history: the items of each received batch as they were at receipt
    made,       \* history: number of sends the producer has started
    closed,     \* the channel is closed
    closes,     \* history: number of close(ch) calls
    consumer,   \* "receiving" | "finished" (its receive saw the closed channel)
    call,       \* CallSpec: the function applied, "idle" before
    args,       \* CallSpec: its arguments
    ret,        \* CallSpec: what it returned
    rkind,      \* ReaderSpec: the reader type in use, "none" elsewhere
    world,      \* ReaderSpec: what the network and the file system will do
    once,       \* sync.Once of the reader: "fresh" | "running" | "done"
    rbuf,       \* the unread bytes of the reader's bytes.Buffer
    fills,      \* history: number of runs of the function given to once.Do
    fillErr,    \* history: the error of that run, "none" before it ended
    tmpFile,    \* the temporary file of SavedLink: "none" | "exists" | "removed"
    fileReader, \* FileReader: [f, off], f is "nil" | "open" | "closed"
    handles,    \* number of open handles on the file of the FileReader
    rpc,        \* position of each goroutine inside Read
    loaded,     \* per goroutine: the buffer as bytes.Buffer.Read found it
    results     \* history: what each finished Read returned, in order

pipeVars == <<adapter, input, ending, pos, pc, i, items, out, heap, received,
              snap, made, closed, closes, consumer>>
callVars == <<call, args, ret>>
readerVars == <<rkind, world, once, rbuf, fills, fillErr, tmpFile, fileReader,
                handles, rpc, loaded, results>>
vars == <<adapter, input, ending, pos, pc, i, items, out, heap, received,
          snap, made, closed, closes, consumer, call, args, ret,
          rkind, world, once, rbuf, fills, fillErr, tmpFile, fileReader,
          handles, rpc, loaded, results>>

----------------------------------------------------------------------------
(* Go slices.  A slice header is [ptr, len, cap]; ptr indexes heap, 0 is   *)
(* the nil slice.  An array slot never written holds Go's zero value, 0.   *)

NilSlice == [ptr |-> 0, len |-> 0, cap |-> 0]

\* The elements a reader of slice s sees in heap h.
Elements(h, s) == IF s.len = 0 THEN <<>> ELSE SubSeq(h[s.ptr], 1, s.len)

\* Capacity after append outgrows a slice of capacity c: the runtime doubles
\* a small slice.
GrowCap(c) == IF c = 0 THEN 1 ELSE 2 * c

\* append(s, v): writes in place while len < cap, else moves the elements to
\* a new, larger array.  Returns the new heap and the new slice header.
GoAppend(h, s, v) ==
    IF s.len < s.cap
    THEN [heap  |-> [h EXCEPT ![s.ptr][s.len + 1] = v],
          slice |-> [s EXCEPT !.len = s.len + 1]]
    ELSE LET c == GrowCap(s.cap)
             a == [k \in 1..c |-> IF k <= s.len THEN h[s.ptr][k]
                                  ELSE IF k = s.len + 1 THEN v ELSE 0]
         IN  [heap  |-> Append(h, a),
              slice |-> [ptr |-> Len(h) + 1, len |-> s.len + 1, cap |-> c]]

\* s[:0]: same array, same capacity, length 0.
Truncate(s) == [s EXCEPT !.len = 0]

\* make([]interface{}, len(docs)) filled with docs: an array of its own.
CopyOf(h, s) ==
    IF s.len = 0
    THEN [heap |-> Append(h, <<>>), slice |-> [ptr |-> Len(h) + 1, len |-> 0, cap |-> 0]]
    ELSE [heap  |-> Append(h, Elements(h, s)),
          slice |-> [ptr |-> Len(h) + 1, len |-> s.len, cap |-> s.len]]

----------------------------------------------------------------------------
(* The inputs.                                                             *)

\* crossref: every unit is a newline-terminated line.  genios: a token is a
\* Document start element that decodes ("rec"), one whose DecodeElement
\* fails ("bad"), or any other token ("other").
Units(a) == IF a = "crossref" THEN {"rec"} ELSE {"rec", "bad", "other"}

\* crossref: ReadString ends with io.EOF (after a complete last line, or with
\* an unterminated rest) or with another error.  genios: Token ends with
\* (nil, io.EOF) or with (nil, syntax error).
Endings(a) == IF a = "crossref" THEN {"eof", "eofPartial", "error"}
              ELSE {"eof", "syntaxError"}

SeqsUpTo(S, n) == UNION {[1..k -> S] : k \in 0..n}

\* The records decoded from the units before position p: a record is named by
\* the index of its unit, so all records differ.
Decoded(p) == SelectSeq([k \in 1..Len(input) |-> k],
                        LAMBDA k : k < p /\ input[k] = "rec")

\* The batch-full test of both loops.
BatchFullOff(n) == n = BatchSize + 1
BatchFull(n) == n = BatchSize

\* The value of i when the goroutine starts.
InitialCount(a) == IF a = "crossref" THEN 1 ELSE 0

PipeInit ==
    /\ adapter \in {"crossref", "genios"}
    /\ input \in SeqsUpTo(Units(adapter), MaxInput)
    /\ ending \in Endings(adapter)
    /\ pos = 1
    /\ pc = "read"
    /\ i = InitialCount(adapter)
    /\ items = NilSlice
    /\ out = NilSlice
    /\ heap = <<>>
    /\ received = <<>>
    /\ snap = <<>>
    /\ made = 0
    /\ closed = FALSE
    /\ closes = 0
    /\ consumer = "receiving"

\* No Iterate call runs (CallSpec).
PipeIdle ==
    /\ adapter = "crossref"
    /\ input = <<>>
    /\ ending = "eof"
    /\ pos = 1
    /\ pc = "idle"
    /\ i = 0
    /\ items = NilSlice
    /\ out = NilSlice
    /\ heap = <<>>
    /\ received = <<>>
    /\ snap = <<>>
    /\ made = 0
    /\ closed = FALSE
    /\ closes = 0
    /\ consumer = "idle"

CallIdle ==
    /\ call = "idle"
    /\ args = <<>>
    /\ ret = <<>>

\* The goroutines that call Read on one reader.
Procs == {1, 2}

ReaderIdle ==
    /\ rkind = "none"
    /\ world = <<>>
    /\ once = "fresh"
    /\ rbuf = <<>>
    /\ fills = 0
    /\ fillErr = "none"
    /\ tmpFile = "none"
    /\ fileReader = [f |-> "nil", off |-> 0]
    /\ handles = 0
    /\ rpc = [p \in Procs |-> "idle"]
    /\ loaded = [p \in Procs |-> <<>>]
    /\ results = <<>>

Init == PipeInit /\ CallIdle /\ ReaderIdle

----------------------------------------------------------------------------
(* crossref.Iterate: the goroutine.                                        *)

\* One pass of the for loop up to the send, or to the break.
CrossrefRead ==
    /\ adapter = "crossref"
    /\ pc = "read"
    /\ IF pos > Len(input)
       THEN \* ReadString returned an error
            /\ IF ending = "error"
               THEN pc' = "fatal" /\ UNCHANGED <<out, made>>    \* log.Fatal
               ELSE pc' = "sendLast" /\ out' = items /\ made' = made + 1
            /\ UNCHANGED <<pos, i, items, heap>>
       ELSE LET r == GoAppend(heap, items, pos) IN
            /\ heap' = r.heap
            /\ items' = r.slice
            /\ pos' = pos + 1
            /\ IF BatchFull(i)
               THEN pc' = "send" /\ out' = r.slice /\ made' = made + 1 /\ i' = i
               ELSE pc' = "read" /\ i' = i + 1 /\ UNCHANGED <<out, made>>
    /\ UNCHANGED <<adapter, input, ending, received, snap, closed, closes, consumer>>
    /\ UNCHANGED <<callVars, readerVars>>

\* After the send returned: batch.Items = batch.Items[:0]; i = 0; i++.
CrossrefResetKeep(s) == s
CrossrefReset(s) == Truncate(s)

CrossrefAfterSend ==
    /\ adapter = "crossref"
    /\ pc = "reset"
    /\ items' = CrossrefReset(items)
    /\ i' = 1
    /\ pc' = "read"
    /\ UNCHANGED <<adapter, input, ending, pos, out, heap, received, snap, made,
                   closed, closes, consumer>>
    /\ UNCHANGED <<callVars, readerVars>>

----------------------------------------------------------------------------
(* genios.Iterate: the goroutine.                                          *)

GeniosRead ==
    /\ adapter = "genios"
    /\ pc = "read"
    /\ IF pos > Len(input)
       THEN \* t == nil, whatever the error Token returned with it: break
            LET b == CopyOf(heap, items) IN
            /\ pc' = "sendLast"
            /\ heap' = b.heap
            /\ out' = b.slice
            /\ made' = made + 1
            /\ UNCHANGED <<pos, i, items>>
       ELSE /\ pos' = pos + 1
            /\ CASE input[pos] = "other" ->
                      /\ pc' = "read"
                      /\ UNCHANGED <<i, items, heap, out, made>>
                 [] input[pos] = "bad" ->
                      /\ pc' = "fatal"                           \* log.Fatal
                      /\ UNCHANGED <<i, items, heap, out, made>>
                 [] input[pos] = "rec" ->
                      LET r == GoAppend(heap, items, pos)
                          b == CopyOf(r.heap, r.slice)
                      IN  /\ items' = r.slice
                          /\ i' = i + 1
                          /\ IF BatchFull(i + 1)
                             THEN /\ pc' = "send"
                                  /\ heap' = b.heap
                                  /\ out' = b.slice
                                  /\ made' = made + 1
                             ELSE /\ pc' = "read"
                                  /\ heap' = r.heap
                                  /\ UNCHANGED <<out, made>>
    /\ UNCHANGED <<adapter, input, ending, received, snap, closed, closes, consumer>>
    /\ UNCHANGED <<callVars, readerVars>>

\* After the send returned: docs = docs[:0]; i = 0.
GeniosAfterSend ==
    /\ adapter = "genios"
    /\ pc = "reset"
    /\ items' = Truncate(items)
    /\ i' = 0
    /\ pc' = "read"
    /\ UNCHANGED <<adapter, input, ending, pos, out, heap, received, snap, made,
                   closed, closes, consumer>>
    /\ UNCHANGED <<callVars, readerVars>>

----------------------------------------------------------------------------
(* The channel (make(chan interface{}): unbuffered) and its consumer.      *)

\* Where the goroutine goes on when its send returned: to the statements
\* after the send in the loop, or to close(ch) after the last send.
AfterSendNoClose(p) == IF p = "send" THEN "reset" ELSE "done"
AfterSend(p) == IF p = "send" THEN "reset" ELSE "close"

\* A send and a receive meet: the consumer gets the batch, the send returns.
Handoff ==
    /\ pc \in {"send", "sendLast"}
    /\ consumer = "receiving"
    /\ received' = Append(received, out)
    /\ snap' = Append(snap, Elements(heap, out))
    /\ pc' = AfterSend(pc)
    /\ UNCHANGED <<adapter, input, ending, pos, i, items, out, heap, made, closed,
                   closes, consumer>>
    /\ UNCHANGED <<callVars, readerVars>>

\* close(ch), the goroutine's last statement.
CloseChannel ==
    /\ pc = "close"
    /\ closed' = TRUE
    /\ closes' = closes + 1
    /\ pc' = "done"
    /\ UNCHANGED <<adapter, input, ending, pos, i, items, out, heap, received, snap,
                   made, consumer>>
    /\ UNCHANGED <<callVars, readerVars>>

\* A receive on the closed channel: the consumer's loop ends.
ReceiveClosed ==
    /\ closed
    /\ consumer = "receiving"
    /\ consumer' = "finished"
    /\ UNCHANGED <<adapter, input, ending, pos, pc, i, items, out, heap, received,
                   snap, made, closed, closes>>
    /\ UNCHANGED <<callVars, readerVars>>

Producer == CrossrefRead \/ CrossrefAfterSend \/ GeniosRead \/ GeniosAfterSend
                \/ CloseChannel
Consumer == Handoff \/ ReceiveClosed

Next == \/ CrossrefRead
        \/ CrossrefAfterSend
        \/ GeniosRead
        \/ GeniosAfterSend
        \/ CloseChannel
        \/ Handoff
        \/ ReceiveClosed

Spec == Init /\ [][Next]_vars

\* The Go scheduler runs a goroutine that can run; the consumer keeps
\* receiving.
FairSpec == Spec /\ WF_vars(Producer) /\ WF_vars(Consumer)

----------------------------------------------------------------------------
(* Package holdings: ParseDelay and Entitlement.Delay.                     *)
(*                                                                         *)
(* A string is a sequence of one-character strings.  A Go int (64 bits) is *)
(* four 16-bit limbs, least significant first, in two's complement, so     *)
(* that value*8760 wraps as it does in Go.  A time.Duration that           *)
(* ParseDelay returns is a whole number of hours, and is kept in hours: an *)
(* int64 of nanoseconds holds at most MaxDurationHours of them.            *)

Base == 65536

HoursPerYear == 8760

HoursPerMonth == 720

\* 1<<63 / uint64(time.Hour): what time.ParseDuration accepts before "h".
MaxDurationHours == 2562047

DigitChars == <<"0", "1", "2", "3", "4", "5", "6", "7", "8", "9">>
Digits == {DigitChars[k] : k \in 1..10}
DigitVal(c) == (CHOOSE k \in 1..10 : DigitChars[k] = c) - 1

Zero64 == <<0, 0, 0, 0>>

\* x*m + a on the limbs, with the carry out of bit 64.
MulAdd64(x, m, a) ==
    LET c1 == x[1] * m + a
        c2 == x[2] * m + (c1 \div Base)
        c3 == x[3] * m + (c2 \div Base)
        c4 == x[4] * m + (c3 \div Base)
    IN  [limbs |-> <<c1 % Base, c2 % Base, c3 % Base, c4 % Base>>,
         carry |-> c4 \div Base]

\* The sign bit of an int64.
IsNeg64(x) == x[4] >= Base \div 2

\* -x in two's complement: the magnitude of a negative int64.
Neg64(x) == MulAdd64([k \in 1..4 |-> Base - 1 - x[k]], 1, 1).limbs

\* The quotient and remainder of the unsigned x by 10.
DivMod10(x) ==
    LET c4 == x[4]
        c3 == (c4 % 10) * Base + x[3]
        c2 == (c3 % 10) * Base + x[2]
        c1 == (c2 % 10) * Base + x[1]
    IN  [quot |-> <<c1 \div 10, c2 \div 10, c3 \div 10, c4 \div 10>>, rem |-> c1 % 10]

\* The decimal digits of the unsigned x.
RECURSIVE Decimal(_)
Decimal(x) ==
    LET qr == DivMod10(x)
        last == <<DigitChars[qr.rem + 1]>>
    IN  IF qr.quot = Zero64 THEN last ELSE Decimal(qr.quot) \o last

\* fmt's %d of an int.
FormatInt(x) == IF IsNeg64(x) THEN <<"-">> \o Decimal(Neg64(x)) ELSE Decimal(x)

\* The number a digit string denotes, on the limbs; over: it needs more
\* than 64 bits.
RECURSIVE ReadDigits(_, _, _)
ReadDigits(ds, acc, over) ==
    IF ds = <<>> THEN [limbs |-> acc, over |-> over]
    ELSE LET r == MulAdd64(acc, 10, DigitVal(Head(ds)))
         IN  ReadDigits(Tail(ds), r.limbs, over \/ r.carry > 0)

\* strconv.Atoi of a digit string: a range error when the number is above
\* 1<<63 - 1.
Atoi(ds) ==
    LET r == ReadDigits(ds, Zero64, FALSE)
    IN  IF r.over \/ IsNeg64(r.limbs)
        THEN [val |-> Zero64, err |-> "range"]
        ELSE [val |-> r.limbs, err |-> "nil"]

\* The unsigned x as a number when it is at most cap, else -1.
SmallValue(x, cap) ==
    IF x[4] = 0 /\ x[3] = 0 /\ x[2] <= cap \div Base /\ x[2] * Base + x[1] <= cap
    THEN x[2] * Base + x[1]
    ELSE -1

AllDigits(s) == \A k \in 1..Len(s) : s[k] \in Digits

\* time.ParseDuration of a text with the one unit "h": an optional sign, then
\* digits, then "h"; anything else, and a number of hours that overflows
\* the int64 of nanoseconds, is an error with the zero duration.
ParseDuration(text) ==
    LET signed == text # <<>> /\ Head(text) \in {"-", "+"}
        neg    == signed /\ Head(text) = "-"
        s      == IF signed THEN Tail(text) ELSE text
        bad    == [d |-> 0, err |-> "invalid duration"]
    IN  IF Len(s) < 2 \/ s[Len(s)] # "h" \/ ~AllDigits(SubSeq(s, 1, Len(s) - 1))
        THEN bad
        ELSE LET r == ReadDigits(SubSeq(s, 1, Len(s) - 1), Zero64, FALSE)
                 v == IF r.over THEN -1 ELSE SmallValue(r.limbs, MaxDurationHours)
             IN  IF v < 0 THEN bad
                 ELSE [d |-> IF neg THEN -v ELSE v, err |-> "nil"]

\* DelayPattern.FindStringSubmatch(s), ^-(\d+)(M|Y)$: the match and its two
\* groups, or nothing.
DelayPatternAnyCase(s) ==
    IF /\ Len(s) >= 3
       /\ s[1] = "-"
       /\ s[Len(s)] \in {"M", "Y", "m", "y"}
       /\ AllDigits(SubSeq(s, 2, Len(s) - 1))
    THEN <<s, SubSeq(s, 2, Len(s) - 1), s[Len(s)]>>
    ELSE <<>>
DelayPattern(s) ==
    IF /\ Len(s) >= 3
       /\ s[1] = "-"
       /\ s[Len(s)] \in {"M", "Y"}
       /\ AllDigits(SubSeq(s, 2, Len(s) - 1))
    THEN <<s, SubSeq(s, 2, Len(s) - 1), s[Len(s)]>>
    ELSE <<>>

\* ParseDelay.  The error of time.ParseDuration is assigned to the err of
\* the if block and the function ends with return d, nil.
ParseDelay(s) ==
    LET ms == DelayPattern(s) IN
    IF Len(ms) = 3
    THEN LET a == Atoi(ms[2]) IN
         IF a.err # "nil" THEN [d |-> 0, err |-> a.err]
         ELSE IF ms[3] = "Y"
              THEN [d   |-> ParseDuration(<<"-">> \o FormatInt(MulAdd64(a.val, HoursPerYear, 0).limbs)
                                                 \o <<"h">>).d,
                    err |-> "nil"]
         ELSE IF ms[3] = "M"
              THEN [d   |-> ParseDuration(<<"-">> \o FormatInt(MulAdd64(a.val, HoursPerMonth, 0).limbs)
                                                 \o <<"h">>).d,
                    err |-> "nil"]
         ELSE [d |-> 0, err |-> "unknown unit"]
    ELSE [d |-> 0, err |-> "unknown format"]

\* Entitlement.Delay.
Delay(e) ==
    IF e.FromDelay # <<>> THEN ParseDelay(e.FromDelay)
    ELSE IF e.ToDelay # <<>> THEN ParseDelay(e.ToDelay)
    ELSE [d |-> 0, err |-> "nil"]

----------------------------------------------------------------------------
(* The inputs of CallSpec.                                                 *)

\* Longest string of the exhaustive part of the inputs.
MaxLen == 3

Alphabet == {"-", "0", "1", "9", "M", "Y", "m", "D", "."}

\* The strings of TestParseDelay and TestBoundary.
TestStrings == {
    <<"-", "0", "M">>, <<"-", "1", "M">>, <<"-", "2", "M">>, <<"-", "1", "Y">>, <<"-", "1", "D">>, <<"-", "1">>, <<"1", "2", "9">>, <<"A", "B">>, <<"-", "1", "1", "1", "m">>, <<"0", ".", "1", "M">>, <<"0", "M">>}

\* Numbers around the limits: the hours of a time.Duration (3558 months,
\* 292 years), the Go int (1<<63 - 1), 64 bits, and numbers whose product
\* with 720 or 8760 wraps.
NumberSamples == {
    <<"2">>, <<"1", "2">>, <<"0", "0", "1", "2">>, <<"2", "9", "2">>, <<"2", "9", "3">>, <<"3", "0", "0">>, <<"3", "5", "5", "8">>, <<"3", "5", "5", "9">>,
    <<"9", "2", "2", "3", "3", "7", "2", "0", "3", "6", "8", "5", "4", "7", "7", "5", "8", "0", "7">>,
    <<"9", "2", "2", "3", "3", "7", "2", "0", "3", "6", "8", "5", "4", "7", "7", "5", "8", "0", "8">>,
    <<"1", "8", "4", "4", "6", "7", "4", "4", "0", "7", "3", "7", "0", "9", "5", "5", "1", "6", "1", "6">>,
    <<"9", "9", "9", "9", "9", "9", "9", "9", "9", "9", "9", "9", "9", "9", "9", "9", "9", "9", "9", "9">>,
    <<"1", "1", "2", "7", "3", "0", "1", "0", "2", "6", "7", "2", "6", "6", "9", "4", "8", "2", "1">>,
    <<"2", "9", "9", "0", "2", "2", "5", "6", "3", "7", "5", "1", "9", "1", "2", "8", "2", "3">>,
    <<"1", "2", "8", "1", "1", "0", "0", "0", "0", "0", "0", "0", "0", "0", "0", "0", "0">>}

DelayStrings ==
    SeqsUpTo(Alphabet, MaxLen) \cup TestStrings
        \cup {<<"-">> \o n \o <<u>> : n \in NumberSamples, u \in {"M", "Y", "D"}}
        \cup {n \o <<u>> : n \in NumberSamples, u \in {"M", "Y"}}

EntitlementDelays == {<<>>, <<"-", "1", "M">>, <<"-", "2", "M">>, <<"-", "1", "Y">>, <<"-", "1", "2", "M">>, <<"-", "0", "M">>, <<"0", "M">>,
                      <<"-", "3", "0", "0", "Y">>, <<"-", "1", "1", "2", "7", "3", "0", "1", "0", "2", "6", "7", "2", "6", "6", "9", "4", "8", "2", "1", "M">>, <<"-", "9", "9", "9", "9", "9", "9", "9", "9", "9", "9", "9", "9", "9", "9", "9", "9", "9", "9", "9", "9", "M">>}

Entitlements == [FromDelay : EntitlementDelays, ToDelay : EntitlementDelays]

CallInit == PipeIdle /\ CallIdle /\ ReaderIdle

CallParseDelay ==
    /\ call = "idle"
    /\ \E s \in DelayStrings :
          /\ call' = "ParseDelay"
          /\ args' = <<s>>
          /\ ret' = ParseDelay(s)
    /\ UNCHANGED <<pipeVars, readerVars>>

CallDelay ==
    /\ call = "idle"
    /\ \E e \in Entitlements :
          /\ call' = "Delay"
          /\ args' = <<e>>
          /\ ret' = Delay(e)
    /\ UNCHANGED <<pipeVars, readerVars>>

\* Entitlement.Boundary.  A time is a number of hours since the zero
\* time.Time; now is what time.Now() returns inside the call.
ZeroTime == 0

BoundaryAfter(e, now) ==
    LET delay == Delay(e) IN
    IF delay.err # "nil" THEN [boundary |-> ZeroTime, err |-> delay.err]
    ELSE [boundary |-> now - delay.d, err |-> "nil"]
Boundary(e, now) ==
    LET delay == Delay(e) IN
    IF delay.err # "nil" THEN [boundary |-> ZeroTime, err |-> delay.err]
    ELSE [boundary |-> now + delay.d, err |-> "nil"]

\* Two times of a call, in the years 2018 and 2020.
Nows == {17684000, 17700000}

CallBoundary ==
    /\ call = "idle"
    /\ \E e \in Entitlements, now \in Nows :
          /\ call' = "Boundary"
          /\ args' = <<e, now>>
          /\ ret' = Boundary(e, now)
    /\ UNCHANGED <<pipeVars, readerVars>>

(***************************************************************************)
(* The strings and dates of the conversions.  A string is a sequence of    *)
(* one-character strings; the inputs are ASCII, so len() counts the        *)
(* characters.                                                             *)
(***************************************************************************)

\* unicode.IsSpace on ASCII.
IsSpace(c) == c \in {" ", "\t", "\n", "\r"}

RECURSIVE TrimLeft(_)
TrimLeft(s) == IF s # <<>> /\ IsSpace(Head(s)) THEN TrimLeft(Tail(s)) ELSE s

RECURSIVE TrimRight(_)
TrimRight(s) ==
    IF s # <<>> /\ IsSpace(s[Len(s)]) THEN TrimRight(SubSeq(s, 1, Len(s) - 1)) ELSE s

\* strings.TrimSpace
TrimSpace(s) == TrimRight(TrimLeft(s))

\* strings.HasPrefix
HasPrefix(s, prefix) == Len(s) >= Len(prefix) /\ SubSeq(s, 1, Len(prefix)) = prefix

\* strings.Index, counted from 1; 0 when sub does not occur.
Index(s, sub) ==
    LET at == {k \in 1..(Len(s) - Len(sub) + 1) : SubSeq(s, k, k + Len(sub) - 1) = sub}
    IN  IF at = {} THEN 0 ELSE CHOOSE k \in at : \A j \in at : k <= j

\* strings.Contains
Contains(s, sub) == Index(s, sub) # 0

\* strings.Replace(s, old, new, n) for a non-empty old: n < 0 replaces every
\* occurrence, left to right.
RECURSIVE Replace(_, _, _, _)
Replace(s, old, new, n) ==
    LET k == Index(s, old) IN
    IF k = 0 \/ n = 0 THEN s
    ELSE SubSeq(s, 1, k - 1) \o new
             \o Replace(SubSeq(s, k + Len(old), Len(s)), old, new, n - 1)

\* strings.ToLower
ToLower(s) ==
    LET UpperChars == <<"A", "B", "C", "D", "E", "F", "G", "H", "I", "J", "K", "L", "M",
                      "N", "O", "P", "Q", "R", "S", "T", "U", "V", "W", "X", "Y", "Z">>
        LowerChars == <<"a", "b", "c", "d", "e", "f", "g", "h", "i", "j", "k", "l", "m",
                      "n", "o", "p", "q", "r", "s", "t", "u", "v", "w", "x", "y", "z">>
    IN
    [k \in 1..Len(s) |->
        IF \E j \in 1..26 : UpperChars[j] = s[k]
        THEN LowerChars[CHOOSE j \in 1..26 : UpperChars[j] = s[k]]
        ELSE s[k]]

\* strings.FieldsFunc: the maximal runs of characters outside delims.
RECURSIVE FieldsFunc(_, _)
FieldsFunc(s, delims) ==
    IF s = <<>> THEN <<>>
    ELSE IF Head(s) \in delims THEN FieldsFunc(Tail(s), delims)
    ELSE LET stops == {k \in 1..Len(s) : s[k] \in delims}
             n == IF stops = {} THEN Len(s) + 1 ELSE CHOOSE k \in stops : \A j \in stops : k <= j
         IN  <<SubSeq(s, 1, n - 1)>> \o FieldsFunc(SubSeq(s, n, Len(s)), delims)

\* strings.Split(s, sep) for a one-character sep.
RECURSIVE Split(_, _)
Split(s, sep) ==
    LET k == Index(s, <<sep>>) IN
    IF k = 0 THEN <<s>>
    ELSE <<SubSeq(s, 1, k - 1)>> \o Split(SubSeq(s, k + 1, Len(s)), sep)

\* The number a short digit string denotes.
RECURSIVE Num(_)
Num(ds) == IF ds = <<>> THEN 0 ELSE Num(SubSeq(ds, 1, Len(ds) - 1)) * 10 + DigitVal(ds[Len(ds)])

\* The decimal digits of a natural number.
RECURSIVE NatDigits(_)
NatDigits(n) == IF n < 10 THEN <<DigitChars[n + 1]>> ELSE NatDigits(n \div 10) \o <<DigitChars[(n % 10) + 1]>>

RECURSIVE Zeros(_)
Zeros(n) == IF n <= 0 THEN <<>> ELSE <<"0">> \o Zeros(n - 1)

\* fmt's %0<width>d of an int: the sign counts in the width.
PadInt(n, width) ==
    IF n < 0
    THEN LET ds == NatDigits(-n) IN <<"-">> \o Zeros(width - 1 - Len(ds)) \o ds
    ELSE LET ds == NatDigits(n) IN Zeros(width - Len(ds)) \o ds

\* A date is a year, a month and a day; the zero time.Time is 1 January of
\* the year 1.
ZeroDate == [y |-> 1, m |-> 1, d |-> 1]

IsLeap(y) == y % 4 = 0 /\ (y % 100 # 0 \/ y % 400 = 0)

DaysIn(m, y) ==
    IF m = 2 THEN (IF IsLeap(y) THEN 29 ELSE 28)
    ELSE IF m \in {4, 6, 9, 11} THEN 30 ELSE 31

\* The layouts the conversions use, as the chunks time.Parse cuts them into.
LayoutYear == <<"2006">>
LayoutCompact == <<"2006", "01", "02">>
LayoutISO == <<"2006", "-", "01", "-", "02">>

\* time.Parse, chunk by chunk: "2006" takes four digits, "01" and "02" two
\* digits each, anything else is a literal; text left over is an error.
RECURSIVE ParseChunks(_, _, _)
ParseChunks(layout, value, acc) ==
    LET fail == [acc EXCEPT !.ok = FALSE] IN
    IF layout = <<>> THEN (IF value = <<>> THEN acc ELSE fail)
    ELSE LET c == Head(layout) IN
         IF c = "2006"
         THEN IF Len(value) >= 4 /\ AllDigits(SubSeq(value, 1, 4))
              THEN ParseChunks(Tail(layout), SubSeq(value, 5, Len(value)),
                               [acc EXCEPT !.y = Num(SubSeq(value, 1, 4))])
              ELSE fail
         ELSE IF c \in {"01", "02"}
         THEN IF Len(value) >= 2 /\ AllDigits(SubSeq(value, 1, 2))
              THEN ParseChunks(Tail(layout), SubSeq(value, 3, Len(value)),
                               IF c = "01" THEN [acc EXCEPT !.m = Num(SubSeq(value, 1, 2))]
                                           ELSE [acc EXCEPT !.d = Num(SubSeq(value, 1, 2))])
              ELSE fail
         ELSE IF value # <<>> /\ Head(value) = c
              THEN ParseChunks(Tail(layout), Tail(value), acc)
              ELSE fail

\* time.Parse(layout, value): the date, or the zero time and a
\* *time.ParseError when the text does not fit the layout or the month or
\* the day is out of range.
TimeParse(layout, value) ==
    LET r == ParseChunks(layout, value, [y |-> 0, m |-> 1, d |-> 1, ok |-> TRUE]) IN
    IF r.ok /\ r.m \in 1..12 /\ r.d >= 1 /\ r.d <= DaysIn(r.m, r.y)
    THEN [t |-> [y |-> r.y, m |-> r.m, d |-> r.d], err |-> "nil"]
    ELSE [t |-> ZeroDate, err |-> "parse"]

\* time.Time.Format("2006-01-02")
FormatISO(t) == PadInt(t.y, 4) \o <<"-">> \o PadInt(t.m, 2) \o <<"-">> \o PadInt(t.d, 2)

\* The byte of a character: the printable ASCII characters from the space
\* (32) to the underscore (95) and from "a" (97) to the tilde (126), and
\* the tab, the line feed and the carriage return.
Code(c) ==
    LET AsciiLow == <<" ", "!", "\"", "#", "$", "%", "&", "'", "(", ")", "*", "+", ",", "-", ".", "/", "0", "1", "2", "3", "4", "5", "6", "7", "8", "9", ":", ";", "<", "=", ">", "?", "@", "A", "B", "C", "D", "E", "F", "G", "H", "I", "J", "K", "L", "M", "N", "O", "P", "Q", "R", "S", "T", "U", "V", "W", "X", "Y", "Z", "[", "\\", "]", "^", "_">>
        AsciiHigh == <<"a", "b", "c", "d", "e", "f", "g", "h", "i", "j", "k", "l", "m", "n", "o", "p", "q", "r", "s", "t", "u", "v", "w", "x", "y", "z", "{", "|", "}", "~">>
    IN
    IF c = "\t" THEN 9 ELSE IF c = "\n" THEN 10 ELSE IF c = "\r" THEN 13
    ELSE IF \E k \in 1..Len(AsciiLow) : AsciiLow[k] = c
    THEN 31 + CHOOSE k \in 1..Len(AsciiLow) : AsciiLow[k] = c
    ELSE 96 + CHOOSE k \in 1..Len(AsciiHigh) : AsciiHigh[k] = c

StdAlphabet == <<"A", "B", "C", "D", "E", "F", "G", "H", "I", "J", "K", "L", "M", "N", "O", "P", "Q", "R", "S", "T", "U", "V", "W", "X", "Y", "Z", "a", "b", "c", "d", "e", "f", "g", "h", "i", "j", "k", "l", "m", "n", "o", "p", "q", "r", "s", "t", "u", "v", "w", "x", "y", "z", "0", "1", "2", "3", "4", "5", "6", "7", "8", "9", "+", "/">>
URLAlphabet == <<"A", "B", "C", "D", "E", "F", "G", "H", "I", "J", "K", "L", "M", "N", "O", "P", "Q", "R", "S", "T", "U", "V", "W", "X", "Y", "Z", "a", "b", "c", "d", "e", "f", "g", "h", "i", "j", "k", "l", "m", "n", "o", "p", "q", "r", "s", "t", "u", "v", "w", "x", "y", "z", "0", "1", "2", "3", "4", "5", "6", "7", "8", "9", "-", "_">>

\* encoding/base64 of a sequence of bytes: three bytes give four characters,
\* six bits each; the last one or two bytes give two or three, padded with
\* "=" when pad.
EncodeBytes(bs, alphabet, pad) ==
    LET n == Len(bs)
        byte(k) == IF k <= n THEN bs[k] ELSE 0
        tail == IF n % 3 = 0 THEN 0 ELSE (n % 3) + 1
        sextet(p) ==
            LET g == 3 * ((p - 1) \div 4)
                r == (p - 1) % 4
            IN  IF r = 0 THEN byte(g + 1) \div 4
                ELSE IF r = 1 THEN ((byte(g + 1) % 4) * 16) + (byte(g + 2) \div 16)
                ELSE IF r = 2 THEN ((byte(g + 2) % 16) * 4) + (byte(g + 3) \div 64)
                ELSE byte(g + 3) % 64
    IN  [p \in 1..(4 * (n \div 3) + tail) |-> alphabet[sextet(p) + 1]]
            \o (IF pad /\ tail > 0 THEN [k \in 1..(4 - tail) |-> "="] ELSE <<>>)

\* base64.RawURLEncoding.EncodeToString and base64.StdEncoding.EncodeToString
RawURLEncoding(s) == EncodeBytes([k \in 1..Len(s) |-> Code(s[k])], URLAlphabet, FALSE)
StdEncoding(s) == EncodeBytes([k \in 1..Len(s) |-> Code(s[k])], StdAlphabet, TRUE)

\* The fields of finc.IntermediateSchema the conversions below fill, as
\* finc.NewIntermediateSchema leaves them.
EmptySchema ==
    [ID |-> <<>>, RecordID |-> <<>>, SourceID |-> <<>>,
     Date |-> ZeroDate, RawDate |-> <<>>,
     ArticleTitle |-> <<>>, JournalTitle |-> <<>>, BookTitle |-> <<>>,
     Authors |-> <<>>, Subjects |-> <<>>,
     URL |-> <<>>, ISSN |-> <<>>, DOI |-> <<>>,
     StartPage |-> <<>>, EndPage |-> <<>>, PageCount |-> <<>>]

(***************************************************************************)
(* The genios document (formats/genios/document.go).  A document is a      *)
(* record of its ID, Source, Title, Year, RawDate, RawAuthors, ISSN and    *)
(* Descriptors.                                                            *)
(***************************************************************************)

maxAuthorLength == 200
minAuthorLength == 4
maxTitleLength == 2048

\* span.KeyLengthLimit, the limit on memcached keys.
KeyLengthLimit == 250

rawDateReplacer(s) == SelectSeq(s, LAMBDA c : c \notin {"\"", "\n", "\t"})

\* yearPattern.MatchString: [12][0-9][0-9][0-9] anywhere in s.
yearPattern(s) ==
    \E k \in 1..(Len(s) - 3) : s[k] \in {"1", "2"} /\ AllDigits(SubSeq(s, k + 1, k + 3))

\* Document.Date
DocumentDate(doc) ==
    LET rawYear == TrimSpace(rawDateReplacer(doc.Year))
        raw == TrimSpace(rawDateReplacer(doc.RawDate))
    IN  IF yearPattern(rawYear)
        THEN TimeParse(LayoutYear, rawYear)
        ELSE TimeParse(LayoutCompact, IF Len(raw) > 8 THEN SubSeq(raw, 1, 8) ELSE raw)

\* Document.Headings
Headings(doc) ==
    LET first == FieldsFunc(doc.Descriptors, {";", "/"})
        fields == IF Len(first) = 1 THEN FieldsFunc(doc.Descriptors, {","}) ELSE first
    IN  [k \in 1..Len(fields) |-> TrimSpace(fields[k])]

\* Document.SourceAndID
SourceAndID(doc) == TrimSpace(doc.Source) \o <<"_", "_">> \o TrimSpace(doc.ID)

\* Document.URL
URL(doc) == <<"h", "t", "t", "p", "s", ":", "/", "/", "w", "w", "w", ".", "w", "i", "s", "o", "-", "n", "e", "t", ".", "d", "e", "/", "d", "o", "c", "u", "m", "e", "n", "t", "/">> \o SourceAndID(doc)

isNomenNescio(s) == ToLower(TrimSpace(s)) \in {<<"n", ".", "n", ".">>, <<>>}

stringContainsAny(s, needles) == \E n \in needles : Contains(s, n)

clues == {<<"w", "w", "w", ".">>, <<"h", "t", "t", "p", ":">>, <<"&", "q", "u", "o", "t">>, <<"p", "a", "r", "t", " ", "1", " ", "o", "f">>, <<"p", "a", "r", "t", " ", "2", " ", "o", "f">>,
          <<"C", "o", "p", "y", "r", "i", "g", "h", "t">>, <<"(", "c", ")">>, <<"A", "l", "l", " ", "r", "i", "g", "h", "t", "s", " ", "r", "e", "s", "e", "r", "v", "e", "d">>, <<"h", "e", " ", "s", "a", "i", "d">>}

\* The delimiters of one raw author field.
AuthorDelimiters(s) == IF Len(s) > 60 THEN {";", "/", ","} ELSE {";", "/"}

\* The tests a field of a raw author value passes to become a name, without
\* the test for clues.
KeepAuthorAnyText(f) ==
    LET name == TrimSpace(f) IN
    /\ ~isNomenNescio(f)
    /\ Len(name) >= minAuthorLength
    /\ Len(name) < maxAuthorLength

\* The tests a field of a raw author value passes to become a name.
KeepAuthor(f) ==
    LET name == TrimSpace(f) IN
    /\ ~isNomenNescio(f)
    /\ Len(name) >= minAuthorLength
    /\ ~stringContainsAny(name, clues)
    /\ Len(name) < maxAuthorLength

\* The names of one raw author field.
AuthorNames(s) ==
    LET kept == SelectSeq(FieldsFunc(s, AuthorDelimiters(s)), KeepAuthor)
    IN  [k \in 1..Len(kept) |-> TrimSpace(kept[k])]

RECURSIVE AuthorsOf(_)
AuthorsOf(raw) == IF raw = <<>> THEN <<>> ELSE AuthorNames(Head(raw)) \o AuthorsOf(Tail(raw))

\* Document.Authors
Authors(doc) == AuthorsOf(doc.RawAuthors)

\* span.ISSNPattern matches at position k: four digits, a hyphen, three
\* digits and a digit or X.
ISSNPatternAt(s, k) ==
    /\ k + 8 <= Len(s)
    /\ AllDigits(SubSeq(s, k, k + 3))
    /\ s[k + 4] = "-"
    /\ AllDigits(SubSeq(s, k + 5, k + 7))
    /\ s[k + 8] \in Digits \cup {"X"}

\* span.ISSNPattern.FindAllString(s, -1)
RECURSIVE FindAllISSN(_)
FindAllISSN(s) ==
    LET at == {k \in 1..Len(s) : ISSNPatternAt(s, k)} IN
    IF at = {} THEN <<>>
    ELSE LET k == CHOOSE j \in at : \A h \in at : j <= h
         IN  <<SubSeq(s, k, k + 8)>> \o FindAllISSN(SubSeq(s, k + 9, Len(s)))

\* Document.ISSNList: the values of a string set, in the order the iteration
\* over a Go map gives them, which is any order.
ISSNList(doc) ==
    LET found == FindAllISSN(doc.ISSN)
        issns == {found[k] : k \in 1..Len(found)}
    IN  {q \in [1..Cardinality(issns) -> issns] : \A a, b \in DOMAIN q : a # b => q[a] # q[b]}

\* Document.FincID
FincID(doc) == <<"a", "i", "-", "4", "8", "-">> \o RawURLEncoding(SourceAndID(doc))

\* Document.ToIntermediateSchema, with issns the list ISSNList returned.
\* The fields left out (abstract, journal title, issue, volume, languages,
\* packages) take no part in any return.
GeniosToIntermediateSchema(doc, issns) ==
    LET date == DocumentDate(doc)
        o1 == [EmptySchema EXCEPT !.Date = date.t]
        o2 == [o1 EXCEPT !.RawDate = FormatISO(date.t),
                         !.Authors = Authors(doc),
                         !.URL = <<URL(doc)>>,
                         !.ArticleTitle = TrimSpace(doc.Title)]
        o3 == [o2 EXCEPT !.ISSN = issns]
        id == FincID(doc)
    IN  IF date.err # "nil" THEN [out |-> o1, err |-> "skip"]
        ELSE IF Len(o2.ArticleTitle) > maxTitleLength THEN [out |-> o2, err |-> "skip"]
        ELSE IF Len(id) > KeyLengthLimit THEN [out |-> o3, err |-> "skip"]
        ELSE [out |-> [o3 EXCEPT !.ID = id,
                                 !.RecordID = doc.ID,
                                 !.SourceID = <<"4", "8">>,
                                 !.Subjects = Headings(doc)],
              err |-> "nil"]

(***************************************************************************)
(* Integers of the page fields: Go ints on the limbs of the holdings       *)
(* section.                                                                *)
(***************************************************************************)

\* x + y in 64 bits.
Add64(x, y) ==
    LET c1 == x[1] + y[1]
        c2 == x[2] + y[2] + (c1 \div Base)
        c3 == x[3] + y[3] + (c2 \div Base)
        c4 == x[4] + y[4] + (c3 \div Base)
    IN  <<c1 % Base, c2 % Base, c3 % Base, c4 % Base>>

\* x - y in 64 bits.
Sub64(x, y) == Add64(x, Neg64(y))

\* strconv.Atoi of any string: an optional sign and digits; a syntax error
\* gives 0, a range error the nearest int.
AtoiSigned(s) ==
    LET signed == s # <<>> /\ Head(s) \in {"+", "-"}
        neg == s # <<>> /\ Head(s) = "-"
        ds == IF signed THEN Tail(s) ELSE s
        r == ReadDigits(ds, Zero64, FALSE)
        MaxInt64 == <<Base - 1, Base - 1, Base - 1, (Base \div 2) - 1>>
        MinInt64 == <<0, 0, 0, Base \div 2>>
    IN  IF ds = <<>> \/ ~AllDigits(ds) THEN [val |-> Zero64, err |-> "syntax"]
        ELSE IF ~neg
        THEN IF r.over \/ IsNeg64(r.limbs)
             THEN [val |-> MaxInt64, err |-> "range"]
             ELSE [val |-> r.limbs, err |-> "nil"]
        ELSE IF r.over \/ (IsNeg64(r.limbs) /\ r.limbs # MinInt64)
             THEN [val |-> MinInt64, err |-> "range"]
             ELSE [val |-> Neg64(r.limbs), err |-> "nil"]

(***************************************************************************)
(* The genderopen record (unnamed/part_000).  A record is its header       *)
(* identifier and the dc fields Title, Creator, Identifier, Source, Date   *)
(* and Subject.                                                            *)
(***************************************************************************)

\* BookTitle with the fallback taken for every source.
BookTitleWholeSource(r) == Replace(r.Source, <<"\n">>, <<" ">>, -2)

\* Record.BookTitle: bookTitlePattern is ([^:]*):([^\(]*), which matches from
\* the start up to the first ":" and on to the next "(".
BookTitle(r) ==
    LET s == Replace(r.Source, <<"\n">>, <<" ">>, -2)
        k == Index(s, <<":">>)
        rest == SubSeq(s, k + 1, Len(s))
        p == Index(rest, <<"(">>)
    IN  IF k = 0 THEN s
        ELSE TrimSpace(IF p = 0 THEN rest ELSE SubSeq(rest, 1, p - 1))

\* The last position of the run of digits that starts at k.
RunEnd(s, k) ==
    CHOOSE e \in k..Len(s) :
        /\ AllDigits(SubSeq(s, k, e))
        /\ e = Len(s) \/ s[e + 1] \notin Digits

\* ([1-9][0-9]*)-([1-9][0-9]*) matches at k.
PagesPatternAt(s, k) ==
    /\ s[k] \in Digits \ {"0"}
    /\ LET e == RunEnd(s, k) IN
          e + 2 <= Len(s) /\ s[e + 1] = "-" /\ s[e + 2] \in Digits \ {"0"}

\* parsePages
parsePages(s) ==
    LET at == {k \in 1..Len(s) : PagesPatternAt(s, k)}
        k == CHOOSE j \in at : \A h \in at : j <= h
        e == RunEnd(s, k)
        ss == SubSeq(s, k, e)
        es == SubSeq(s, e + 2, RunEnd(s, e + 2))
    IN  IF at = {} THEN [start |-> <<>>, end |-> <<>>, total |-> <<>>]
        ELSE [start |-> ss, end |-> es,
              total |-> FormatInt(Sub64(AtoiSigned(es).val, AtoiSigned(ss).val))]

\* stringsContainsAny: v is one of vals, letter case aside.
stringsContainsAny(v, vals) == \E vv \in vals : ToLower(v) = ToLower(vv)

\* The DOI after the loop over the identifiers: the last assignment stays.
RECURSIVE LastDOI(_, _)
LastDOI(ids, doi) ==
    IF ids = <<>> THEN doi
    ELSE LastDOI(Tail(ids),
                 IF HasPrefix(Head(ids), <<"h", "t", "t", "p", ":", "/", "/", "d", "x", ".", "d", "o", "i", ".", "o", "r", "g", "/">>)
                 THEN Replace(Head(ids), <<"h", "t", "t", "p", ":", "/", "/", "d", "x", ".", "d", "o", "i", ".", "o", "r", "g", "/">>, <<>>, -1)
                 ELSE doi)

\* The three lists of the identifier loop: each identifier passes the three
\* prefix tests one after the other.
IdentifierFields(ids) ==
    LET isURL(v) == HasPrefix(v, <<"h", "t", "t", "p">>)
        isISSN(v) == HasPrefix(v, <<"u", "r", "n", ":", "I", "S", "S", "N", ":">>)
        issns == SelectSeq(ids, isISSN)
    IN  [URL |-> SelectSeq(ids, isURL),
         ISSN |-> [k \in 1..Len(issns) |-> Replace(issns[k], <<"u", "r", "n", ":", "I", "S", "S", "N", ":">>, <<>>, 1)],
         DOI |-> LastDOI(ids, <<>>)]

\* Record.ToIntermediateSchema
GenderopenToIntermediateSchema(record) ==
    LET encodedRecordID == RawURLEncoding(record.HeaderIdentifier)
        idf == IdentifierFields(record.Identifier)
        o1 == [EmptySchema EXCEPT !.SourceID = <<"1", "6", "2">>,
                                  !.RecordID = encodedRecordID,
                                  !.ID = <<"a", "i", "-", "1", "6", "2", "-">> \o encodedRecordID,
                                  !.ArticleTitle = record.Title,
                                  !.Authors = record.Creator,
                                  !.URL = idf.URL,
                                  !.ISSN = idf.ISSN,
                                  !.DOI = idf.DOI]
        o2 == IF stringsContainsAny(o1.ArticleTitle, {<<"z", "e", "i", "t", "s", "c", "h", "r", "i", "f", "t">>, <<"j", "o", "u", "r", "n", "a", "l">>})
                  \/ Len(o1.ISSN) > 0
              THEN [o1 EXCEPT !.JournalTitle = record.Source]
              ELSE [o1 EXCEPT !.BookTitle = BookTitle(record)]
        date == TimeParse(LayoutYear, SubSeq(record.Date, 1, 4))
        pages == parsePages(record.Source)
    IN  IF record.Date = <<>> THEN [out |-> o2, err |-> "skip"]
        ELSE IF Len(record.Date) < 4 THEN [out |-> o2, err |-> "skip"]
        ELSE IF date.err # "nil" THEN [out |-> o2, err |-> date.err]
        ELSE [out |-> [o2 EXCEPT !.Date = date.t,
                                 !.RawDate = FormatISO(date.t),
                                 !.Subjects = record.Subject,
                                 !.StartPage = pages.start,
                                 !.EndPage = pages.end,
                                 !.PageCount = pages.total],
              err |-> "nil"]

(***************************************************************************)
(* The crossref document (unnamed/part_002).  A document is a record of    *)
(* its Issued date-parts (lists of ints), URL, Page, Title, Subtitle, DOI, *)
(* ISSN and Subjects.                                                      *)
(***************************************************************************)

\* PageInfo.PageCount
PageCount(pi) ==
    LET count == Sub64(pi.EndPage, pi.StartPage) IN
    IF pi.StartPage # Zero64 /\ pi.EndPage # Zero64 /\ ~IsNeg64(count) /\ count # Zero64
    THEN count
    ELSE Zero64

\* Document.RecordID: the verb %d is given the string "49".
RecordID(doc) == <<"a", "i", "-", "%", "!", "d", "(", "s", "t", "r", "i", "n", "g", "=", "4", "9", ")", "-">> \o StdEncoding(doc.URL)

\* Document.PageInfo
PageInfo(doc) ==
    LET parts == Split(doc.Page, "-")
        spage == AtoiSigned(parts[1])
        epage == AtoiSigned(parts[2])
        pi == [RawMessage |-> doc.Page, StartPage |-> Zero64, EndPage |-> Zero64]
    IN  IF Len(parts) # 2 THEN pi
        ELSE IF spage.err # "nil" THEN pi
        ELSE IF epage.err # "nil" THEN [pi EXCEPT !.StartPage = spage.val]
        ELSE [pi EXCEPT !.StartPage = spage.val, !.EndPage = epage.val]

\* DateField.Date: the switch has no case for date-parts of no or more than
\* three numbers and leaves t and err as they are.
DateFieldDate(df) ==
    LET parts == df.DateParts[1] IN
    IF df.DateParts = <<>> THEN [t |-> ZeroDate, err |-> "date is missing"]
    ELSE IF Len(parts) = 1
    THEN TimeParse(LayoutISO, PadInt(parts[1], 4) \o <<"-", "0", "1", "-", "0", "1">>)
    ELSE IF Len(parts) = 2
    THEN TimeParse(LayoutISO, PadInt(parts[1], 4) \o <<"-">> \o PadInt(parts[2], 2) \o <<"-", "0", "1">>)
    ELSE IF Len(parts) = 3
    THEN TimeParse(LayoutISO, PadInt(parts[1], 4) \o <<"-">> \o PadInt(parts[2], 2)
                                  \o <<"-">> \o PadInt(parts[3], 2))
    ELSE [t |-> ZeroDate, err |-> "nil"]

\* Document.CombinedTitle
CombinedTitle(doc) ==
    IF Len(doc.Title) > 0
    THEN IF Len(doc.Subtitle) > 0
         THEN doc.Title[1] \o <<" ", ":", " ">> \o doc.Subtitle[1]
         ELSE doc.Title[1]
    ELSE IF Len(doc.Subtitle) > 0 THEN doc.Subtitle[1] ELSE <<>>

\* Document.ToIntermediateSchema.  It leaves ID empty; the composed
\* identifier is in RecordID.  The fields left out (authors, issue, volume,
\* publisher, journal title, mega collection) take no part in any return.
CrossrefToIntermediateSchema(doc) ==
    LET date == DateFieldDate(doc.Issued)
        o1 == [EmptySchema EXCEPT !.RawDate = FormatISO(date.t)]
        pi == PageInfo(doc)
    IN  IF date.err # "nil" THEN [out |-> o1, err |-> date.err]
        ELSE IF doc.URL = <<>> THEN [out |-> o1, err |-> "URL is missing"]
        ELSE [out |-> [o1 EXCEPT !.ArticleTitle = CombinedTitle(doc),
                                 !.DOI = doc.DOI,
                                 !.ISSN = doc.ISSN,
                                 !.RecordID = RecordID(doc),
                                 !.SourceID = <<"4", "9">>,
                                 !.Subjects = doc.Subjects,
                                 !.URL = <<doc.URL>>,
                                 !.StartPage = FormatInt(pi.StartPage),
                                 !.EndPage = FormatInt(pi.EndPage),
                                 !.PageCount = FormatInt(PageCount(pi))],
              err |-> "nil"]

(***************************************************************************)
(* The records the conversions are called with: one record of each format  *)
(* and the records that differ from it in one group of fields.             *)
(***************************************************************************)

Repeat(c, n) == [k \in 1..n |-> c]

GeniosDocument ==
    [ID |-> <<"b", "0", "6", "0", "4", "1", "6", "0", "0", "5", "2">>, Source |-> <<"B", "O", "N", "D">>, Title |-> <<" ", "B", "o", "n", "d", "s", " ", "i", "n", " ", "2", "0", "1", "5", " ">>,
     Year |-> <<"2", "0", "1", "5">>, RawDate |-> <<"2", "0", "1", "5", "0", "3", "0", "2">>,
     RawAuthors |-> <<<<"M", "i", "l", "l", "e", "r", ",", " ", "A", "n", "n", "a">>>>,
     ISSN |-> <<"1", "2", "3", "4", "-", "5", "6", "7", "8">>, Descriptors |-> <<"B", "o", "n", "d", "s", ";", " ", "M", "a", "r", "k", "e", "t", "s">>]

\* Pairs of Year and Date.
GeniosDates ==
    {<<<<"2", "0", "1", "5">>, <<>>>>, <<<<>>, <<"2", "0", "1", "5", "0", "3", "0", "2">>>>, <<<<" ", "2", "0", "1", "5", "\n">>, <<"2", "0", "1", "4", "0", "1", "0", "1">>>>,
     <<<<"2", "0", "1", "5", "a">>, <<"2", "0", "1", "5", "0", "3", "0", "2">>>>, <<<<"c", "a", ".", " ", "2", "0", "1", "5">>, <<"2", "0", "1", "4", "0", "1", "0", "1">>>>, <<<<"2", "0", "1", "5", "-", "0", "3">>, <<>>>>,
     <<<<>>, <<>>>>, <<<<>>, <<"2", "0", "1", "5">>>>, <<<<"a", "b", "c", "d">>, <<"2", "0", "1", "5", "1", "3", "0", "1">>>>,
     <<<<"1", "5">>, <<"\"", "2", "0", "1", "6", "0", "2", "2", "9", "\"">>>>, <<<<>>, <<"2", "0", "1", "5", "0", "2", "2", "9">>>>, <<<<>>, <<"2", "0", "1", "5", "0", "3", "0", "2", "1", "2", "0", "0">>>>,
     <<<<"3", "0", "1", "5">>, <<"2", "0", "1", "0", "0", "1", "0", "1">>>>, <<<<"n", ".", "a", ".">>, <<"0", "2", ".", "0", "3", ".", "2", "0", "1", "5">>>>, <<<<"1", "9", "9", "9">>, <<"g", "a", "r", "b", "a", "g", "e">>>>}

GeniosAuthors ==
    {<<>>,
     <<<<"M", "i", "l", "l", "e", "r", ",", " ", "A", "n", "n", "a">>>>,
     <<<<"M", "i", "l", "l", "e", "r", ",", " ", "A", "n", "n", "a">>, <<"M", "i", "l", "l", "e", "r", ",", " ", "A", "n", "n", "a">>>>,
     <<<<"R", "o", "e", ",", " ", "R", ".", ";", " ", "D", "o", "e", ",", " ", "J", ".">>, <<"D", "o", "e", ",", " ", "J", ".">>>>,
     <<<<" ", "D", "o", "e", ",", " ", "J", ".", " ", ";", " ", "n", ".", "n", ".", "/", " ", "N", ".", "N", ".", " ", ";", "a", "b", "c", ";", ";", " ", "w", "w", "w", ".", "e", "x", "a", "m", "p", "l", "e", ".", "c", "o", "m", " ", "/", " ", "R", "o", "e", ",", " ", "R", ".">>>>,
     <<<<"C", "o", "p", "y", "r", "i", "g", "h", "t", " ", "2", "0", "1", "0", " ", "b", "y", " ", "X">>, <<"(", "c", ")", " ", "A", "C", "M", "E">>, <<"L", "e", "e", " ">>, <<"L", "e", "e">>, <<"h", "e", " ", "s", "a", "i", "d", " ", "i", "t">>>>,
     <<<<"M", "i", "l", "l", "e", "r", ",", " ", "A", "n", "n", "a", ",", " ", "D", "o", "e", ",", " ", "J", "o", "h", "n", ",", " ", "R", "o", "e", ",", " ", "R", "i", "c", "h", "a", "r", "d", ",", " ", "S", "m", "i", "t", "h", ",", " ", "Z", "o", "e", ",", " ", "M", "o", "r", "e", ",", " ", "T", "h", "o", "m", "a", "s", ",", " ", "N", "g">>>>,
     <<Repeat("a", 199)>>,
     <<Repeat("a", 200)>>,
     <<<<" ">> \o Repeat("b", 199) \o <<" ", ";", " ", "X", "i", " ", "L", "i">>>>,
     <<Repeat("c", 201) \o <<"/", "A", "b", "e", "l">>>>}

GeniosISSNs ==
    {<<>>, <<"1", "2", "3", "4", "-", "5", "6", "7", "8">>, <<"1", "2", "3", "4", "-", "5", "6", "7", "8", " ", "1", "2", "3", "4", "-", "5", "6", "7", "8">>, <<"1", "2", "3", "4", "-", "5", "6", "7", "X", ",", " ", "8", "7", "6", "5", "-", "4", "3", "2", "1", " ", "1", "2", "3", "4", "-", "5", "6", "7", "X">>, <<"1", "2", "3", "4", "5", "6", "7", "8">>}

GeniosDescriptors ==
    {<<>>, <<"B", "o", "n", "d", "s", ";", " ", "M", "a", "r", "k", "e", "t", "s">>, <<"B", "o", "n", "d", "s", ";", " ", "B", "o", "n", "d", "s">>, <<"L", "a", "w", "/", "T", "a", "x", ";", "L", "a", "w", " ">>, <<"T", "a", "x", ",", " ", "L", "a", "w", ",", " ", "T", "a", "x">>, <<"T", "a", "x">>}

\* IDs that bring the composed identifier to 250 and to 252 characters.
GeniosIDs == {<<"b", "0", "6", "0", "4", "1", "6", "0", "0", "5", "2">>, Repeat("x", 177), Repeat("x", 178), Repeat("x", 300)}

GeniosTitles == {<<" ", "B", "o", "n", "d", "s", " ", "i", "n", " ", "2", "0", "1", "5", " ">>, Repeat("t", 2048), Repeat("t", 2049)}

GeniosDocuments ==
    {[GeniosDocument EXCEPT !.Year = p[1], !.RawDate = p[2]] : p \in GeniosDates}
    \cup {[GeniosDocument EXCEPT !.RawAuthors = a] : a \in GeniosAuthors}
    \cup {[GeniosDocument EXCEPT !.ISSN = v] : v \in GeniosISSNs}
    \cup {[GeniosDocument EXCEPT !.Descriptors = v] : v \in GeniosDescriptors}
    \cup {[GeniosDocument EXCEPT !.ID = v] : v \in GeniosIDs}
    \cup {[GeniosDocument EXCEPT !.Title = v] : v \in GeniosTitles}
    \cup {[GeniosDocument EXCEPT !.ID = Repeat("x", 178), !.Year = <<"2", "0", "1", "5", "a">>],
          [GeniosDocument EXCEPT !.Title = Repeat("t", 2049), !.Year = <<>>, !.RawDate = <<>>]}

GenderopenRecord ==
    [HeaderIdentifier |-> <<"o", "a", "i", ":", "w", "w", "w", ".", "g", "e", "n", "d", "e", "r", "o", "p", "e", "n", ".", "d", "e", ":", "2", "5", "5", "9", "5", "/", "1", "7">>,
     Title |-> <<"A", "c", "h", "s", "e", "n", " ", "d", "e", "r", " ", "D", "i", "f", "f", "e", "r", "e", "n", "z">>,
     Creator |-> <<<<"K", "n", "a", "p", "p", ",", " ", "G", "u", "d", "r", "u", "n", "-", "A", "x", "e", "l", "i">>>>,
     Identifier |-> <<<<"h", "t", "t", "p", "s", ":", "/", "/", "w", "w", "w", ".", "g", "e", "n", "d", "e", "r", "o", "p", "e", "n", ".", "d", "e", "/", "2", "5", "5", "9", "5", "/", "1", "7">>>>,
     Source |-> <<"K", "n", "a", "p", "p", ",", " ", "G", ".", "\n", " ", "(", "H", "r", "s", "g", ".", ")", ":", " ", "A", "c", "h", "s", "e", "n", " ", "d", "e", "r", " ", "D", "i", "f", "f", "e", "r", "e", "n", "z", " ", "(", "M", "u", "e", "n", "s", "t", "e", "r", ":", " ", "W", "D", ",", " ", "2", "0", "0", "3", ")", ",", " ", "7", "3", "-", "1", "0", "0">>,
     Date |-> <<"2", "0", "0", "3">>,
     Subject |-> <<<<"G", "e", "n", "d", "e", "r">>>>]

GenderopenDates ==
    {<<>>, <<"2">>, <<"2", "0", "0">>, <<"2", "0", "0", "3">>, <<"2", "0", "0", "3", "-", "0", "5", "-", "0", "1">>, <<"2", "0", "0", "3", "x", "y", "z">>, <<"a", "b", "c", "d">>, <<"2", "0", "a", "3">>,
     <<"c", ".", " ", "2", "0", "0", "3">>, <<" ", "2", "0", "0", "3">>, <<"0", "0", "0", "0">>, <<"u", "m", " ", "1", "9", "0", "0">>}

GenderopenIdentifiers ==
    {<<>>,
     <<<<"h", "t", "t", "p", ":", "/", "/", "d", "x", ".", "d", "o", "i", ".", "o", "r", "g", "/", "1", "0", ".", "1", "/", "x">>>>,
     <<<<"u", "r", "n", ":", "I", "S", "S", "N", ":", "1", "2", "3", "4", "-", "5", "6", "7", "8">>>>,
     <<<<"u", "r", "n", ":", "I", "S", "B", "N", ":", "9", "7", "8", "-", "3", "-", "6", "4", "3">>, <<"d", "o", "i", ":", "1", "0", ".", "1", "/", "y">>>>,
     <<<<"h", "t", "t", "p", "s", ":", "/", "/", "a", ".", "d", "e", "/", "1">>, <<"u", "r", "n", ":", "I", "S", "S", "N", ":", "1", "2", "3", "4", "-", "5", "6", "7", "8">>, <<"h", "t", "t", "p", ":", "/", "/", "d", "x", ".", "d", "o", "i", ".", "o", "r", "g", "/", "1", "0", ".", "1", "/", "x">>, <<"u", "r", "n", ":", "I", "S", "S", "N", ":", "8", "7", "6", "5", "-", "4", "3", "2", "1">>>>,
     <<<<"h", "t", "t", "p", ":", "/", "/", "d", "x", ".", "d", "o", "i", ".", "o", "r", "g", "/", "1", "0", ".", "1", "/", "x">>, <<"h", "t", "t", "p", ":", "/", "/", "d", "x", ".", "d", "o", "i", ".", "o", "r", "g", "/", "1", "0", ".", "2", "/", "h", "t", "t", "p", ":", "/", "/", "d", "x", ".", "d", "o", "i", ".", "o", "r", "g", "/", "z">>>>,
     <<<<"H", "T", "T", "P", ":", "/", "/", "A", ".", "D", "E">>, <<"u", "r", "n", ":", "i", "s", "s", "n", ":", "1", "2", "3", "4", "-", "5", "6", "7", "8">>, <<"h", "t", "t", "p", "x">>>>}

GenderopenSources ==
    {<<>>, <<"K", "n", "a", "p", "p", ",", " ", "G", ".", "\n", " ", "(", "H", "r", "s", "g", ".", ")", ":", " ", "A", "c", "h", "s", "e", "n", "\n", "d", "e", "r", " ", "D", "i", "f", "f", "e", "r", "e", "n", "z", " ", "(", "2", "0", "0", "3", ")", ",", " ", "7", "3", "-", "1", "0", "0">>, <<"A", "c", "h", "s", "e", "n", "\n", "d", "e", "r", " ", "D", "i", "f", "f", "e", "r", "e", "n", "z">>, <<"I", "n", ":", " ", "Q", "u", "e", "r", "e", "l", "l", "e", "s", "\n">>, <<"F", "e", "m", "i", "n", "i", "s", "t", "i", "s", "c", "h", "e", " ", "S", "t", "u", "d", "i", "e", "n", " ", "1", "2", " ", "(", "2", "0", "0", "3", ")", ",", " ", "7", "3", "-", "1", "0", "0">>, <<"E", "d", ".", ":", " ", "T", "i", "t", "l", "e", " ", "(", "2", "0", "0", "3", ")", ",", " ", "1", "0", "0", "-", "7", "3">>,
     <<"p", "p", ".", " ", "0", "7", "3", "-", "1", "0", "0">>, <<"S", ".", " ", "5">>, <<"1", "2", "-", "1", "2">>, <<"7", "-">>, <<"-", "7">>, <<"1", "-", "2", "-", "3">>, <<"A", ":", " ", "B", " ", "(", "C", ")", ",", " ", "1", "0", "-", "0", "9", ",", " ", "1", "1", "-", "1", "2">>,
     <<"N", "r", ".", " ", "3", ",", " ", "S", ".", " ", "9", "2", "2", "3", "3", "7", "2", "0", "3", "6", "8", "5", "4", "7", "7", "5", "8", "0", "8", "-", "9">>}

GenderopenTitles == {<<"A", "c", "h", "s", "e", "n", " ", "d", "e", "r", " ", "D", "i", "f", "f", "e", "r", "e", "n", "z">>, <<"J", "o", "u", "r", "n", "a", "l">>, <<"Z", "E", "I", "T", "S", "C", "H", "R", "I", "F", "T">>, <<"A", " ", "j", "o", "u", "r", "n", "a", "l">>}

GenderopenHeaderIdentifiers ==
    {<<"o", "a", "i", ":", "w", "w", "w", ".", "g", "e", "n", "d", "e", "r", "o", "p", "e", "n", ".", "d", "e", ":", "2", "5", "5", "9", "5", "/", "1", "7">>, Repeat("o", 182), Repeat("o", 183), Repeat("o", 400)}

GenderopenRecords ==
    {[GenderopenRecord EXCEPT !.Date = v] : v \in GenderopenDates}
    \cup {[GenderopenRecord EXCEPT !.Identifier = v] : v \in GenderopenIdentifiers}
    \cup {[GenderopenRecord EXCEPT !.Source = v] : v \in GenderopenSources}
    \cup {[GenderopenRecord EXCEPT !.Title = v] : v \in GenderopenTitles}
    \cup {[GenderopenRecord EXCEPT !.HeaderIdentifier = v] : v \in GenderopenHeaderIdentifiers}
    \cup {[GenderopenRecord EXCEPT !.HeaderIdentifier = Repeat("o", 400), !.Date = <<"a", "b", "c", "d">>]}

CrossrefDocument ==
    [Issued |-> [DateParts |-> <<<<2015, 3, 7>>>>],
     URL |-> <<"h", "t", "t", "p", ":", "/", "/", "d", "x", ".", "d", "o", "i", ".", "o", "r", "g", "/", "1", "0", ".", "1", "/", "x">>,
     Page |-> <<"1", "2", "-", "3", "4">>,
     Title |-> <<<<"B", "o", "n", "d", "s">>>>, Subtitle |-> <<<<"A", " ", "s", "t", "u", "d", "y">>>>,
     DOI |-> <<"1", "0", ".", "1", "/", "x">>,
     ISSN |-> <<<<"1", "2", "3", "4", "-", "5", "6", "7", "8">>>>,
     Subjects |-> <<<<"F", "i", "n", "a", "n", "c", "e">>>>]

CrossrefDateParts ==
    {<<>>, <<<<>>>>, <<<<2015>>>>, <<<<2015, 3>>>>, <<<<2015, 3, 7>>>>, <<<<2015, 1, 2, 3>>>>,
     <<<<2015, 13>>>>, <<<<2015, 0>>>>, <<<<2015, 2, 30>>>>, <<<<2016, 2, 29>>>>,
     <<<<2015, 2, 29>>>>, <<<<0>>>>, <<<<15>>>>, <<<<12345>>>>, <<<<-5>>>>, <<<<2015, 3, 0>>>>,
     <<<<2015, 3, 7>>, <<2016>>>>, <<<<>>, <<2016>>>>, <<<<2015, -3>>>>, <<<<2015, 3, 123>>>>}

CrossrefPages ==
    {<<>>, <<"1", "2", "-", "3", "4">>, <<"3", "4", "-", "1", "2">>, <<"1", "2">>, <<"1", "2", "-", "a", "b", "c">>, <<"a", "b", "c", "-", "1", "2">>, <<"1", "-", "2", "-", "3">>, <<"-", "5">>, <<"0", "-", "1", "0">>,
     <<"1", "0", "-", "0">>, <<"5", "-", "5">>, <<"+", "3", "-", "9">>, <<"1", "2", " ", "-", " ", "3", "4">>, <<"e", "1", "2", "-", "e", "3", "4">>, <<"9", "2", "2", "3", "3", "7", "2", "0", "3", "6", "8", "5", "4", "7", "7", "5", "8", "0", "8", "-", "1">>,
     <<"1", "-", "9", "2", "2", "3", "3", "7", "2", "0", "3", "6", "8", "5", "4", "7", "7", "5", "8", "0", "8">>, <<"0", "0", "7", "-", "0", "1", "0">>}

CrossrefURLs == {<<>>, <<"h", "t", "t", "p", ":", "/", "/", "d", "x", ".", "d", "o", "i", ".", "o", "r", "g", "/", "1", "0", ".", "1", "/", "x">>, Repeat("u", 172), Repeat("u", 400)}

CrossrefDocuments ==
    {[CrossrefDocument EXCEPT !.Issued = [DateParts |-> v]] : v \in CrossrefDateParts}
    \cup {[CrossrefDocument EXCEPT !.Page = v] : v \in CrossrefPages}
    \cup {[CrossrefDocument EXCEPT !.URL = v] : v \in CrossrefURLs}
    \cup {[CrossrefDocument EXCEPT !.Title = <<>>],
          [CrossrefDocument EXCEPT !.Subtitle = <<>>],
          [CrossrefDocument EXCEPT !.Title = <<>>, !.Subtitle = <<>>],
          [CrossrefDocument EXCEPT !.Issued = [DateParts |-> <<>>], !.URL = <<>>],
          [CrossrefDocument EXCEPT !.Issued = [DateParts |-> <<<<>>>>], !.URL = <<>>]}

CallDocumentDate ==
    /\ call = "idle"
    /\ \E doc \in GeniosDocuments :
          /\ call' = "Document.Date"
          /\ args' = <<doc>>
          /\ ret' = DocumentDate(doc)
    /\ UNCHANGED <<pipeVars, readerVars>>

CallAuthors ==
    /\ call = "idle"
    /\ \E doc \in GeniosDocuments :
          /\ call' = "Document.Authors"
          /\ args' = <<doc>>
          /\ ret' = [authors |-> Authors(doc)]
    /\ UNCHANGED <<pipeVars, readerVars>>

CallGeniosToIntermediateSchema ==
    /\ call = "idle"
    /\ \E doc \in GeniosDocuments :
          \E issns \in ISSNList(doc) :
              /\ call' = "genios.ToIntermediateSchema"
              /\ args' = <<doc>>
              /\ ret' = GeniosToIntermediateSchema(doc, issns)
    /\ UNCHANGED <<pipeVars, readerVars>>

CallParsePages ==
    /\ call = "idle"
    /\ \E s \in GenderopenSources \cup CrossrefPages :
          /\ call' = "parsePages"
          /\ args' = <<s>>
          /\ ret' = parsePages(s)
    /\ UNCHANGED <<pipeVars, readerVars>>

CallGenderopenToIntermediateSchema ==
    /\ call = "idle"
    /\ \E record \in GenderopenRecords :
          /\ call' = "genderopen.ToIntermediateSchema"
          /\ args' = <<record>>
          /\ ret' = GenderopenToIntermediateSchema(record)
    /\ UNCHANGED <<pipeVars, readerVars>>

CallDateFieldDate ==
    /\ call = "idle"
    /\ \E v \in CrossrefDateParts :
          /\ call' = "DateField.Date"
          /\ args' = <<[DateParts |-> v]>>
          /\ ret' = DateFieldDate([DateParts |-> v])
    /\ UNCHANGED <<pipeVars, readerVars>>

CallCrossrefToIntermediateSchema ==
    /\ call = "idle"
    /\ \E doc \in CrossrefDocuments :
          /\ call' = "crossref.ToIntermediateSchema"
          /\ args' = <<doc>>
          /\ ret' = CrossrefToIntermediateSchema(doc)
    /\ UNCHANGED <<pipeVars, readerVars>>

(***************************************************************************)
(* HoldingsMap (holdings/ovid.go).  The document is the sequence of its    *)
(* top-level elements.  An element has a tag, the text of its ezb_id       *)
(* attribute (attrOK: it is a number) and its children in document order:  *)
(* a p-issn or an e-issn with its value, "bad" for a child whose text does *)
(* not convert to its Go field (a year that is no number), "syntax" for    *)
(* the place where the XML is not well-formed.  An ISSN is an opaque text. *)
(***************************************************************************)

MaxHoldings == 3

\* The Holding a decoder has filled up to the first n children.
RECURSIVE DecodeChildren(_, _)
DecodeChildren(children, item) ==
    IF children = <<>> THEN [item |-> item, err |-> "nil"]
    ELSE LET c == Head(children) IN
         IF c.kind = "bad" THEN [item |-> item, err |-> "convert"]
         ELSE IF c.kind = "syntax" THEN [item |-> item, err |-> "syntax"]
         ELSE IF c.kind = "p-issn"
         THEN DecodeChildren(Tail(children), [item EXCEPT !.PISSN = Append(@, c.v)])
         ELSE DecodeChildren(Tail(children), [item EXCEPT !.EISSN = Append(@, c.v)])

\* decoder.DecodeElement(&item, &se): the attributes first, then the
\* children; the first failure ends it and leaves item as filled so far.
DecodeElement(el) ==
    LET zero == [EZBID |-> 0, PISSN |-> <<>>, EISSN |-> <<>>] IN
    IF ~el.attrOK THEN [item |-> zero, err |-> "convert"]
    ELSE DecodeChildren(el.children, [zero EXCEPT !.EZBID = el.id])

\* h after h[id] = item for every id of ids, in order.
RECURSIVE Assign(_, _, _)
Assign(h, ids, item) ==
    IF ids = <<>> THEN h
    ELSE Assign([x \in DOMAIN h \cup {Head(ids)} |-> IF x = Head(ids) THEN item ELSE h[x]],
                Tail(ids), item)

\* The loop of HoldingsMap over the tokens: every start element named
\* holding is decoded, the error of DecodeElement is dropped, and the item
\* is stored under its e-ISSNs and then its p-ISSNs.  After a syntax error
\* decoder.Token returns nil and the loop ends.
RECURSIVE HoldingsLoop(_, _)
HoldingsLoop(elements, h) ==
    IF elements = <<>> THEN h
    ELSE LET el == Head(elements)
             r == DecodeElement(el)
             stored == Assign(Assign(h, r.item.EISSN, r.item), r.item.PISSN, r.item)
         IN  IF el.tag # "holding" THEN HoldingsLoop(Tail(elements), h)
             ELSE IF r.err = "syntax" THEN stored
             ELSE HoldingsLoop(Tail(elements), stored)

\* HoldingsMap
HoldingsMap(elements) == HoldingsLoop(elements, <<>>)

Issn(kind, v) == [kind |-> kind, v |-> v]

HoldingElements ==
    {[tag |-> "holding", id |-> 1, attrOK |-> TRUE,
      children |-> <<Issn("p-issn", "1610-2940"), Issn("e-issn", "0948-5023")>>],
     [tag |-> "holding", id |-> 2, attrOK |-> TRUE,
      children |-> <<Issn("e-issn", "1610-2940")>>],
     [tag |-> "holding", id |-> 3, attrOK |-> TRUE, children |-> <<>>],
     [tag |-> "holding", id |-> 4, attrOK |-> TRUE,
      children |-> <<Issn("p-issn", "2222-2222"), [kind |-> "bad", v |-> "year"]>>],
     [tag |-> "holding", id |-> 5, attrOK |-> TRUE,
      children |-> <<[kind |-> "bad", v |-> "year"], Issn("p-issn", "3333-3333")>>],
     [tag |-> "holding", id |-> 6, attrOK |-> FALSE,
      children |-> <<Issn("e-issn", "4444-4444")>>],
     [tag |-> "holding", id |-> 7, attrOK |-> TRUE,
      children |-> <<Issn("e-issn", "5555-5555"), [kind |-> "syntax", v |-> "<"]>>],
     [tag |-> "title", id |-> 8, attrOK |-> TRUE,
      children |-> <<Issn("p-issn", "6666-6666")>>]}

CallHoldingsMap ==
    /\ call = "idle"
    /\ \E elements \in SeqsUpTo(HoldingElements, MaxHoldings) :
          /\ call' = "HoldingsMap"
          /\ args' = <<elements>>
          /\ ret' = [h |-> HoldingsMap(elements)]
    /\ UNCHANGED <<pipeVars, readerVars>>


(***************************************************************************)
(* finc/exporter: Solr5Vufind3v12.Convert.  The exporter value s is the    *)
(* receiver; Convert(s, is) is the value of the receiver after the call.   *)
(***************************************************************************)
NOT_ASSIGNED == <<"n", "o", "t", " ", "a", "s", "s", "i", "g", "n", "e", "d">>

\* Author.String: "Family, Given", or the one name that is there.
AuthorString(author) ==
    IF author.Given # <<>>
    THEN IF author.Family # <<>> THEN author.Family \o <<",", " ">> \o author.Given
         ELSE author.Given
    ELSE author.Family

\* AuthorReplacer.Replace: a strings.Replacer that deletes marker texts.
RECURSIVE AuthorReplacer(_)
AuthorReplacer(s) ==
    LET olds == <<<<"#">>, <<"-", "-">>, <<"*">>, <<"|">>, <<"&", "N", "B", "S", "P", ";">>, <<"&", "n", "b", "s", "p", ";">>>>
        hits == {k \in 1..Len(olds) : HasPrefix(s, olds[k])}
        k0   == CHOOSE k \in hits : \A other \in hits : k <= other
    IN  IF s = <<>> THEN <<>>
        ELSE IF hits # {} THEN AuthorReplacer(SubSeq(s, Len(olds[k0]) + 1, Len(s)))
        ELSE <<Head(s)>> \o AuthorReplacer(Tail(s))

\* LanguageMap.LookupDefault(lang, lang): the mapped name, or lang itself.
LanguageMap(lang) ==
    IF lang = <<"d", "e", "u">> THEN <<"G", "e", "r", "m", "a", "n">>
    ELSE IF lang = <<"e", "n", "g">> THEN <<"E", "n", "g", "l", "i", "s", "h">>
    ELSE lang

\* The zero value of the exporter struct.
ZeroExporter ==
    [ID |-> <<>>, Formats |-> <<>>, MegaCollections |-> <<>>, Series |-> <<>>,
     Languages |-> <<>>, Authors |-> <<>>, AuthorFacet |-> <<>>,
     VF1Author |-> <<>>, VF1SecondaryAuthors |-> <<>>, ContainerTitle |-> <<>>]

\* The loop over is.Authors: st holds the receiver's author fields and the
\* local slice authors.
RECURSIVE CollectAuthors(_, _)
CollectAuthors(list, st) ==
    IF list = <<>> THEN st
    ELSE LET sanitized == AuthorReplacer(AuthorString(Head(list)))
         IN  IF sanitized = <<>> THEN CollectAuthors(Tail(list), st)
             ELSE CollectAuthors(Tail(list),
                    [authors |-> Append(st.authors, sanitized),
                     VF1Author |-> IF st.VF1Author = <<>> THEN sanitized
                                   ELSE st.VF1Author,
                     VF1SecondaryAuthors |->
                         IF st.VF1Author = <<>> THEN st.VF1SecondaryAuthors
                         ELSE Append(st.VF1SecondaryAuthors, sanitized),
                     AuthorFacet |-> Append(st.AuthorFacet, sanitized)])

Convert(s, is) ==
    LET st == CollectAuthors(is.Authors,
                  [authors |-> <<>>, VF1Author |-> s.VF1Author,
                   VF1SecondaryAuthors |-> s.VF1SecondaryAuthors,
                   AuthorFacet |-> s.AuthorFacet])
    IN  [ID |-> is.RecordID,
         Formats |-> Append(s.Formats, is.Format),
         MegaCollections |-> Append(s.MegaCollections, is.MegaCollection),
         Series |-> Append(s.Series, is.JournalTitle),
         Languages |-> s.Languages \o
                       [k \in 1..Len(is.Languages) |-> LanguageMap(is.Languages[k])],
         Authors |-> IF st.authors = <<>> THEN <<NOT_ASSIGNED>> ELSE st.authors,
         AuthorFacet |-> st.AuthorFacet,
         VF1Author |-> IF st.VF1Author = <<>> THEN NOT_ASSIGNED ELSE st.VF1Author,
         VF1SecondaryAuthors |-> st.VF1SecondaryAuthors,
         ContainerTitle |-> is.JournalTitle]

\* Intermediate schema records handed to the exporter.
ExportAuthors ==
    {<<>>,
     <<[Family |-> <<"R", "o", "e">>, Given |-> <<"J", "o">>] >>,
     <<[Family |-> <<"N", "g", "#">>, Given |-> <<>>], [Family |-> <<>>, Given |-> <<"A", "-", "-", "B">>] >>,
     <<[Family |-> <<"*", "|">>, Given |-> <<>>]>>}

ExportRecords ==
    {[RecordID |-> id, Format |-> f, MegaCollection |-> <<"G", "e", "n", "i", "o", "s">>,
      JournalTitle |-> j, Languages |-> l, Authors |-> a] :
        id \in {<<"a", "i", "-", "4", "8", "-", "Q", "Q">>}, f \in {<<"E", "l", "e", "c", "t", "r", "o", "n", "i", "c", "A", "r", "t", "i", "c", "l", "e">>, <<"E", "l", "e", "c", "t", "r", "o", "n", "i", "c", "B", "o", "o", "k">>},
        j \in {<<>>, <<"W", "i", "r", "t", "s", "c", "h", "a", "f", "t">>}, l \in {<<>>, <<<<"d", "e", "u">>>>, <<<<"z", "x", "x">>, <<"e", "n", "g">>>>},
        a \in ExportAuthors}

\* Convert(r) on a fresh exporter value, and on a value that an earlier
\* Convert(r0) has filled.
CallConvert ==
    /\ call = "idle"
    /\ \E r0 \in ExportRecords, r \in ExportRecords :
          /\ call' = "Convert"
          /\ args' = <<r0, r>>
          /\ ret' = [fresh  |-> Convert(ZeroExporter, r),
                     reused |-> Convert(Convert(ZeroExporter, r0), r)]
    /\ UNCHANGED <<pipeVars, readerVars>>


\* The same source record converted twice with the same adapter.  Each
\* conversion of a genios document ranges over the set of ISSNs on its own.
CallGeniosConvertTwice ==
    /\ call = "idle"
    /\ \E doc \in GeniosDocuments :
          \E issns1 \in ISSNList(doc), issns2 \in ISSNList(doc) :
              /\ call' = "genios.ToIntermediateSchema twice"
              /\ args' = <<doc>>
              /\ ret' = [first  |-> GeniosToIntermediateSchema(doc, issns1),
                         second |-> GeniosToIntermediateSchema(doc, issns2)]
    /\ UNCHANGED <<pipeVars, readerVars>>

CallGenderopenConvertTwice ==
    /\ call = "idle"
    /\ \E record \in GenderopenRecords :
          /\ call' = "genderopen.ToIntermediateSchema twice"
          /\ args' = <<record>>
          /\ ret' = [first  |-> GenderopenToIntermediateSchema(record),
                     second |-> GenderopenToIntermediateSchema(record)]
    /\ UNCHANGED <<pipeVars, readerVars>>


(***************************************************************************)
(* ReadLines.  A file is there or not; its content is a string.            *)
(***************************************************************************)
MaxFileLen == 5

\* bufio.Reader.ReadString('\n'): the text up to and including the first
\* newline; at the end of the file the text read so far together with
\* io.EOF.
ReadString(rest) ==
    LET k == Index(rest, <<"\n">>) IN
    IF k = 0 THEN [line |-> rest, err |-> "EOF", rest |-> <<>>]
    ELSE [line |-> SubSeq(rest, 1, k), err |-> "nil",
          rest |-> SubSeq(rest, k + 1, Len(rest))]

RECURSIVE ReadLinesLoop(_, _)
ReadLinesLoop(rest, lines) ==
    LET r    == ReadString(rest)
        line == TrimSpace(r.line)
    IN  IF r.err = "EOF" THEN lines
        ELSE IF line = <<>> THEN ReadLinesLoop(r.rest, lines)
        ELSE ReadLinesLoop(r.rest, Append(lines, line))

ReadLines(file) ==
    IF ~file.exists THEN [lines |-> <<>>, err |-> "open"]
    ELSE [lines |-> ReadLinesLoop(file.content, <<>>), err |-> "nil"]

Files ==
    {[exists |-> FALSE, content |-> <<>>]}
    \cup {[exists |-> TRUE, content |-> c] :
            c \in SeqsUpTo({"a", " ", "\n"}, MaxFileLen)}

CallReadLines ==
    /\ call = "idle"
    /\ \E file \in Files :
          /\ call' = "ReadLines"
          /\ args' = <<file>>
          /\ ret' = ReadLines(file)
    /\ UNCHANGED <<pipeVars, readerVars>>


(***************************************************************************)
(* ISSN: Validate and String.                                              *)
(***************************************************************************)
MaxSeparators == 2

\* replacer = strings.NewReplacer("-", "", " ", "")
replacer(s) ==
    LET keep(c) == c \notin {"-", " "} IN SelectSeq(s, keep)

\* strings.ToUpper
ToUpper(s) ==
    LET UpperChars == <<"A", "B", "C", "D", "E", "F", "G", "H", "I", "J", "K", "L", "M",
                      "N", "O", "P", "Q", "R", "S", "T", "U", "V", "W", "X", "Y", "Z">>
        LowerChars == <<"a", "b", "c", "d", "e", "f", "g", "h", "i", "j", "k", "l", "m",
                      "n", "o", "p", "q", "r", "s", "t", "u", "v", "w", "x", "y", "z">>
    IN
    [k \in 1..Len(s) |->
        IF \E j \in 1..26 : LowerChars[j] = s[k]
        THEN UpperChars[CHOOSE j \in 1..26 : LowerChars[j] = s[k]]
        ELSE s[k]]

\* pattern = ^[0-9]{7}[0-9X]$
pattern(t) ==
    /\ Len(t) = 8
    /\ \A k \in 1..7 : t[k] \in Digits
    /\ t[8] \in Digits \cup {"X"}

\* String that leaves out the hyphen.
ISSNStringCompact(s) ==
    LET t == TrimSpace(ToUpper(replacer(s))) IN
    IF Len(t) # 8 THEN s ELSE t

ISSNValidate(s) ==
    LET t == TrimSpace(ToUpper(replacer(s))) IN
    IF Len(t) # 8 THEN "invalid"
    ELSE IF ~pattern(t) THEN "invalid"
    ELSE "nil"

ISSNString(s) ==
    LET t == TrimSpace(ToUpper(replacer(s))) IN
    IF Len(t) # 8 THEN s
    ELSE SubSeq(t, 1, 4) \o <<"-">> \o SubSeq(t, 5, 8)

\* Texts with up to n hyphens, spaces and tabs put into the texts of S.
RECURSIVE Decorated(_, _)
Decorated(S, n) ==
    IF n = 0 THEN S
    ELSE LET D == Decorated(S, n - 1) IN
         D \cup UNION {{SubSeq(s, 1, p) \o <<c>> \o SubSeq(s, p + 1, Len(s)) :
                           p \in {0, 2, 4, Len(s)}, c \in {"-", " ", "\t"}} : s \in D}

ISSNs ==
    Decorated({front \o <<last>> :
                  front \in {<<"1", "2", "3", "4", "5", "6", "7">>, <<"1", "2", "3", "4", "5", "6">>, <<"1", "2", "E", "4", "5", "6", "7">>},
                  last \in {"8", "X", "x", "a"}}, MaxSeparators)

CallISSNString ==
    /\ call = "idle"
    /\ \E s \in ISSNs :
          /\ call' = "ISSN.String"
          /\ args' = <<s>>
          /\ ret' = [valid    |-> ISSNValidate(s),
                     str      |-> ISSNString(s),
                     strvalid |-> ISSNValidate(ISSNString(s)),
                     strstr   |-> ISSNString(ISSNString(s))]
    /\ UNCHANGED <<pipeVars, readerVars>>

CallNext == \/ CallParseDelay
            \/ CallDelay
            \/ CallBoundary
            \/ CallDocumentDate
            \/ CallAuthors
            \/ CallGeniosToIntermediateSchema
            \/ CallParsePages
            \/ CallGenderopenToIntermediateSchema
            \/ CallDateFieldDate
            \/ CallCrossrefToIntermediateSchema
            \/ CallHoldingsMap
            \/ CallConvert
            \/ CallGeniosConvertTwice
            \/ CallGenderopenConvertTwice
            \/ CallReadLines
            \/ CallISSNString

CallSpec == CallInit /\ [][CallNext]_vars

----------------------------------------------------------------------------
(* The readers of package span: LinkReader, SavedLink, ZipContentReader,   *)
(* FileReader and ZipOrPlainLinkReader.  One reader is in use; world says  *)
(* what the network and the file system do when the reader turns to them.  *)

MaxReads == 4       \* Read calls in one behaviour
ReadSize == 1       \* len(p) of each Read call

ReaderKinds == {"LinkReader", "ZipContentReader", "ZipOrPlainLinkReader", "FileReader"}
OnceKinds == ReaderKinds \ {"FileReader"}

\* What is behind a link or in a file: its bytes, and what zip.OpenReader
\* and the archive members make of them (bad is the member that fails).
Bodies ==
    {[raw |-> <<>>, zip |-> FALSE, members |-> <<>>, bad |-> 0],
     [raw |-> <<"a", "b">>, zip |-> FALSE, members |-> <<>>, bad |-> 0],
     [raw |-> <<"P", "K">>, zip |-> TRUE, members |-> << <<"x">>, <<"y">> >>, bad |-> 0],
     [raw |-> <<"P", "K">>, zip |-> TRUE, members |-> << <<"x">>, <<"y">> >>, bad |-> 2]}

\* temp: ioutil.TempFile succeeds; get: http.Get succeeds; copy: the body is
\* copied to its end; present: the named file can be opened; read: reads of
\* an open file succeed, or fail after the first one.
Worlds(k) ==
    {[temp |-> t, get |-> g, copy |-> c, body |-> b, present |-> f, read |-> r] :
        t \in IF k = "ZipOrPlainLinkReader" THEN BOOLEAN ELSE {TRUE},
        g \in IF k \in {"LinkReader", "ZipOrPlainLinkReader"} THEN BOOLEAN ELSE {TRUE},
        c \in IF k \in {"LinkReader", "ZipOrPlainLinkReader"} THEN BOOLEAN ELSE {TRUE},
        b \in Bodies,
        f \in IF k \in {"ZipContentReader", "FileReader"} THEN BOOLEAN ELSE {TRUE},
        r \in IF k \in {"FileReader", "ZipOrPlainLinkReader"} THEN BOOLEAN ELSE {TRUE}}

\* The function LinkReader.fill hands to once.Do.
LinkReaderFill(w) ==
    IF ~w.get THEN [buf |-> <<>>, err |-> "get"]
    ELSE IF ~w.copy
         THEN [buf |-> SubSeq(w.body.raw, 1, Len(w.body.raw) - 1), err |-> "copy"]
    ELSE [buf |-> w.body.raw, err |-> "nil"]

\* SavedLink.Save: the temporary file is created, then the link is copied
\* into it through a LinkReader.
Save(w) ==
    IF ~w.temp THEN [err |-> "tempfile", tmp |-> "none"]
    ELSE [err |-> LinkReaderFill(w).err, tmp |-> "exists"]

\* The loop over rc.File in ZipContentReader.fill.
RECURSIVE CopyMembers(_, _, _, _)
CopyMembers(files, k, bad, acc) ==
    IF k > Len(files) THEN [buf |-> acc, err |-> "nil"]
    ELSE IF k = bad THEN [buf |-> acc, err |-> "member"]
    ELSE CopyMembers(files, k + 1, bad, acc \o files[k])

\* The function ZipContentReader.fill hands to once.Do.
ZipContentReaderFill(w) ==
    IF ~w.present \/ ~w.body.zip THEN [buf |-> <<>>, err |-> "zip"]
    ELSE CopyMembers(w.body.members, 1, w.body.bad, <<>>)

\* FileReader.Read on the state fr of the reader; fault: this read of the
\* open file fails.  dh is the change in the number of open handles.
FileReaderRead(fr, w, fault) ==
    IF fr.f = "nil" /\ ~w.present
    THEN [fr |-> fr, data |-> <<>>, err |-> "open", dh |-> 0]
    ELSE LET f1   == IF fr.f = "nil" THEN [f |-> "open", off |-> 0] ELSE fr
             open == IF fr.f = "nil" THEN 1 ELSE 0
             n    == IF Len(w.body.raw) - f1.off < ReadSize
                     THEN Len(w.body.raw) - f1.off ELSE ReadSize
         IN  IF f1.f = "closed"
             THEN [fr |-> f1, data |-> <<>>, err |-> "closed", dh |-> 0]
             ELSE IF fault
             THEN [fr |-> f1, data |-> <<>>, err |-> "read", dh |-> open]
             ELSE IF f1.off = Len(w.body.raw)
             THEN [fr |-> [f |-> "nil", off |-> 0], data |-> <<>>, err |-> "EOF",
                   dh |-> open - 1]
             ELSE [fr |-> [f |-> "open", off |-> f1.off + n],
                   data |-> SubSeq(w.body.raw, f1.off + 1, f1.off + n),
                   err |-> "nil", dh |-> open]

\* io.Copy(&r.buf, &FileReader{Filename: filename}): Read until io.EOF or
\* an error.
RECURSIVE CopyFileReader(_, _, _, _)
CopyFileReader(fr, w, acc, opened) ==
    LET r == FileReaderRead(fr, w, ~w.read /\ fr.f = "open") IN
    IF r.err = "EOF" THEN [buf |-> acc, err |-> "nil", handles |-> opened + r.dh]
    ELSE IF r.err # "nil" THEN [buf |-> acc, err |-> r.err, handles |-> opened + r.dh]
    ELSE CopyFileReader(r.fr, w, acc \o r.data, opened + r.dh)

\* The function ZipOrPlainLinkReader.fill hands to once.Do.  link.Remove is
\* deferred once Save has returned without error.
ZipOrPlainLinkReaderFill(w) ==
    LET saved == Save(w)
        file  == [w EXCEPT !.present = TRUE]
        zipped == ZipContentReaderFill(file)
        plain == CopyFileReader([f |-> "nil", off |-> 0], file, <<>>, 0)
    IN  IF saved.err # "nil"
        THEN [buf |-> <<>>, err |-> saved.err, tmp |-> saved.tmp, handles |-> 0]
        ELSE IF zipped.err = "nil"
        THEN [buf |-> zipped.buf, err |-> "nil", tmp |-> "removed", handles |-> 0]
        ELSE [buf |-> plain.buf, err |-> plain.err, tmp |-> "removed",
              handles |-> plain.handles]

\* The function the reader of kind k hands to once.Do.
fill(k, w) ==
    IF k = "LinkReader"
    THEN [buf |-> LinkReaderFill(w).buf, err |-> LinkReaderFill(w).err,
          tmp |-> "none", handles |-> 0]
    ELSE IF k = "ZipContentReader"
    THEN [buf |-> ZipContentReaderFill(w).buf, err |-> ZipContentReaderFill(w).err,
          tmp |-> "none", handles |-> 0]
    ELSE ZipOrPlainLinkReaderFill(w)

ReaderStart ==
    /\ rkind \in ReaderKinds
    /\ world \in Worlds(rkind)
    /\ once = "fresh"
    /\ rbuf = <<>>
    /\ fills = 0
    /\ fillErr = "none"
    /\ tmpFile = "none"
    /\ fileReader = [f |-> "nil", off |-> 0]
    /\ handles = 0
    /\ rpc = [p \in Procs |-> "idle"]
    /\ loaded = [p \in Procs |-> <<>>]
    /\ results = <<>>

Returned(p, data, err) == Append(results, [p |-> p, data |-> data, err |-> err])

\* A goroutine calls Read, which calls fill, which calls once.Do.
ReadCall ==
    /\ rkind \in OnceKinds
    /\ \E p \in Procs :
          /\ rpc[p] = "idle"
          /\ Len(results) + Cardinality({q \in Procs : rpc[q] # "idle"}) < MaxReads
          /\ rpc' = [rpc EXCEPT ![p] = "once"]
    /\ UNCHANGED <<rkind, world, once, rbuf, fills, fillErr, tmpFile, fileReader,
                   handles, loaded, results>>
    /\ UNCHANGED <<pipeVars, callVars>>

\* once.Do: the first caller runs the function, a caller that finds it
\* running waits, a caller that finds it done returns; the err of its own
\* fill call is then still nil.
OnceDo ==
    /\ \E p \in Procs :
          /\ rpc[p] = "once"
          /\ once # "running"
          /\ IF once = "fresh"
             THEN once' = "running" /\ rpc' = [rpc EXCEPT ![p] = "filling"]
             ELSE once' = once /\ rpc' = [rpc EXCEPT ![p] = "bufread"]
    /\ UNCHANGED <<rkind, world, rbuf, fills, fillErr, tmpFile, fileReader,
                   handles, loaded, results>>
    /\ UNCHANGED <<pipeVars, callVars>>

\* The function given to once.Do runs to its end; Read returns its error,
\* or goes on to r.buf.Read.
FillRun ==
    /\ \E p \in Procs :
          /\ rpc[p] = "filling"
          /\ LET r == fill(rkind, world) IN
                /\ once' = "done"
                /\ fills' = fills + 1
                /\ fillErr' = r.err
                /\ rbuf' = rbuf \o r.buf
                /\ tmpFile' = r.tmp
                /\ handles' = handles + r.handles
                /\ IF r.err # "nil"
                   THEN /\ results' = Returned(p, <<>>, r.err)
                        /\ rpc' = [rpc EXCEPT ![p] = "idle"]
                   ELSE /\ results' = results
                        /\ rpc' = [rpc EXCEPT ![p] = "bufread"]
    /\ UNCHANGED <<rkind, world, fileReader, loaded>>
    /\ UNCHANGED <<pipeVars, callVars>>

\* bytes.Buffer.Read is not synchronised: it looks at the buffer ...
BufLoad ==
    /\ \E p \in Procs :
          /\ rpc[p] = "bufread"
          /\ loaded' = [loaded EXCEPT ![p] = rbuf]
          /\ rpc' = [rpc EXCEPT ![p] = "bufstore"]
    /\ UNCHANGED <<rkind, world, once, rbuf, fills, fillErr, tmpFile, fileReader,
                   handles, results>>
    /\ UNCHANGED <<pipeVars, callVars>>

\* ... and then moves its offset on, from the offset it saw or from the
\* offset another Read has stored meanwhile.
BufStore ==
    /\ \E p \in Procs :
          /\ rpc[p] = "bufstore"
          /\ LET b == loaded[p]
                 n == IF Len(b) < ReadSize THEN Len(b) ELSE ReadSize
             IN  IF b = <<>>
                 THEN /\ results' = Returned(p, <<>>, "EOF")
                      /\ rbuf' = <<>>
                 ELSE /\ results' = Returned(p, SubSeq(b, 1, n), "nil")
                      /\ \E from \in {b, rbuf} :
                            rbuf' = SubSeq(from, n + 1, Len(from))
          /\ rpc' = [rpc EXCEPT ![p] = "idle"]
    /\ UNCHANGED <<rkind, world, once, fills, fillErr, tmpFile, fileReader,
                   handles, loaded>>
    /\ UNCHANGED <<pipeVars, callVars>>

\* FileReader.Read, called by one goroutine.
FileRead ==
    /\ rkind = "FileReader"
    /\ Len(results) < MaxReads
    /\ \E fault \in IF world.read THEN {FALSE} ELSE BOOLEAN :
          LET r == FileReaderRead(fileReader, world, fault /\ fileReader.f = "open") IN
              /\ fileReader' = r.fr
              /\ handles' = handles + r.dh
              /\ results' = Returned(1, r.data, r.err)
    /\ UNCHANGED <<rkind, world, once, rbuf, fills, fillErr, tmpFile, rpc, loaded>>
    /\ UNCHANGED <<pipeVars, callVars>>

\* FileReader.Close on an open file; r.f keeps the closed handle.
FileClose ==
    /\ rkind = "FileReader"
    /\ fileReader.f = "open"
    /\ fileReader' = [fileReader EXCEPT !.f = "closed"]
    /\ handles' = handles - 1
    /\ UNCHANGED <<rkind, world, once, rbuf, fills, fillErr, tmpFile, rpc, loaded,
                   results>>
    /\ UNCHANGED <<pipeVars, callVars>>

ReaderNext == \/ ReadCall
              \/ OnceDo
              \/ FillRun
              \/ BufLoad
              \/ BufStore
              \/ FileRead
              \/ FileClose

ReaderInit == PipeIdle /\ CallIdle /\ ReaderStart

ReaderSpec == ReaderInit /\ [][ReaderNext]_vars

----------------------------------------------------------------------------
(* Properties of Iterate.                                                  *)

RECURSIVE Flatten(_)
Flatten(ss) == IF ss = <<>> THEN <<>> ELSE Head(ss) \o Flatten(Tail(ss))

RECURSIVE SumLen(_)
SumLen(hs) == IF hs = <<>> THEN 0 ELSE Head(hs).len + SumLen(Tail(hs))

CeilDiv(n, b) == (n + b - 1) \div b

\* The reader fails nowhere: the input ends with io.EOF and every Document
\* element decodes.
NoReadError == /\ ending \in {"eof", "eofPartial"}
               /\ \A k \in 1..Len(input) : input[k] # "bad"

\* The records of the whole input.
AllRecords == Decoded(Len(input) + 1)

\* The records read from the input and not yet handed to a consumer.
Unreceived == Len(Decoded(pos)) - Len(Flatten(snap))

\* C1: for an input of N records and batch size B, the channel delivers
\* exactly ceil(N/B) batches before it is closed; their item counts sum to N,
\* every batch but the last holds B items, and the last holds N mod B items
\* (B when N is a positive multiple of B).
C1_BatchCount ==
    (closed /\ NoReadError) =>
        LET N == Len(AllRecords)
            n == Len(received)
        IN  /\ n = CeilDiv(N, BatchSize)
            /\ SumLen(received) = N
            /\ \A k \in 1..(n - 1) : received[k].len = BatchSize
            /\ n > 0 => received[n].len =
                            IF N % BatchSize = 0 THEN BatchSize ELSE N % BatchSize

\* C2: no batch with zero items is ever sent on the channel, for any input,
\* the empty input and the exact multiples of the batch size included.
C2_NoEmptyBatch ==
    /\ \A k \in 1..Len(received) : received[k].len > 0
    /\ pc \in {"send", "sendLast"} => out.len > 0

\* C3: once a batch has been received, the producer never writes to its
\* items again: what a consumer reads from a received batch is at every
\* later point what it was at receipt.
C3_ReceivedBatchStable ==
    \A k \in 1..Len(received) : Elements(heap, received[k]) = snap[k]

\* C4: the items of all batches, each as it is at receipt, concatenated in
\* the order of receipt, are the records in the order the producer decoded
\* them: none missing, duplicated or out of order; after the last send they
\* are all the records decoded.
C4_ConcatIsDecodeOrder ==
    LET got == Flatten(snap)
        dec == Decoded(pos)
    IN  /\ Len(got) <= Len(dec)
        /\ got = SubSeq(dec, 1, Len(got))
        /\ pc \in {"close", "done"} => got = dec

C4_Witness ==
    /\ pc = "done"
    /\ Len(snap) >= 3
    /\ Len(Flatten(snap)) > 2 * BatchSize

\* C5: a failure of the decode layer (a ReadString error other than io.EOF,
\* an error of the XML token cursor) aborts the run: the run never ends the
\* way a normal end of stream does, with the last batch sent and the
\* channel closed.
C5_DecodeErrorAborts ==
    ending \in {"error", "syntaxError"} => ~(closed \/ pc \in {"sendLast", "close"})

\* C6: for a finite input without read error and a consumer that keeps
\* receiving, the goroutine eventually closes the channel; the channel is
\* closed once, only after every batch has been received, and nothing is
\* sent after the close.
C6_ClosesOnceAtEnd ==
    /\ NoReadError ~> closed
    /\ [](closes <= 1)
    /\ [](closed => (Len(received) = made /\ Flatten(snap) = AllRecords))
    /\ [][closed => (closed' /\ received' = received /\ made' = made)]_vars

C6_Witness ==
    /\ closed
    /\ consumer = "finished"
    /\ NoReadError
    /\ Len(received) >= 3

\* C7: at every point at most one batch is completed and not yet received,
\* and the records read from the input and not yet handed to a consumer
\* never number more than one batch size.
C7_AtMostOneBatchInFlight ==
    /\ made - Len(received) <= 1
    /\ Unreceived <= BatchSize

C7_Witness ==
    /\ pc = "send"
    /\ Len(received) >= 1
    /\ Unreceived = BatchSize

----------------------------------------------------------------------------
(* Properties of ParseDelay and Entitlement.Delay.                         *)

\* A string of the form '-', one or more decimal digits, 'M' or 'Y'.
IsMovingWall(s) ==
    \E n \in 1..(Len(s) - 2) :
        /\ Len(s) = n + 2
        /\ Head(s) = "-"
        /\ \A k \in 2..(n + 1) : s[k] \in {"0", "1", "2", "3", "4", "5", "6", "7", "8", "9"}
        /\ s[n + 2] = "M" \/ s[n + 2] = "Y"

\* The digits of such a string, without leading zeros.
RECURSIVE StripZeros(_)
StripZeros(ds) == IF Len(ds) > 1 /\ Head(ds) = "0" THEN StripZeros(Tail(ds)) ELSE ds

NumberOf(s) == StripZeros(SubSeq(s, 2, Len(s) - 1))

\* a <= b for digit strings of one length.
RECURSIVE DigitsLeq(_, _)
DigitsLeq(a, b) ==
    IF a = <<>> THEN TRUE
    ELSE IF DigitVal(Head(a)) # DigitVal(Head(b)) THEN DigitVal(Head(a)) < DigitVal(Head(b))
    ELSE DigitsLeq(Tail(a), Tail(b))

\* 1<<63 - 1, the largest Go int.
MaxIntDigits == <<"9", "2", "2", "3", "3", "7", "2", "0", "3", "6", "8", "5", "4", "7", "7", "5", "8", "0", "7">>

\* The number written ds (no leading zeros) is at most 1<<63 - 1.
FitsInt(ds) ==
    \/ Len(ds) < Len(MaxIntDigits)
    \/ Len(ds) = Len(MaxIntDigits) /\ DigitsLeq(ds, MaxIntDigits)

\* The number written ds when it is below lim, else lim.
RECURSIVE ValueBelow(_, _, _)
ValueBelow(ds, acc, lim) ==
    IF ds = <<>> THEN acc
    ELSE LET v == acc * 10 + DigitVal(Head(ds))
         IN  ValueBelow(Tail(ds), IF v < lim THEN v ELSE lim, lim)

\* C8: Entitlement.Delay returns a mismatch error together with the zero
\* duration whenever FromDelay and ToDelay are both non-empty and resolve to
\* different durations; it never returns the duration of one side.
C8_DelayMismatch ==
    call = "Delay" =>
        LET e == args[1]
            f == ParseDelay(e.FromDelay)
            t == ParseDelay(e.ToDelay)
        IN  (/\ e.FromDelay # <<>>
             /\ e.ToDelay # <<>>
             /\ f.err = "nil"
             /\ t.err = "nil"
             /\ f.d # t.d) => (ret.err = "delay mismatch" /\ ret.d = 0)

\* C9 as stated: ParseDelay returns a nil error for every string of the form
\* '-' digits ('M' | 'Y'), and a format error with the zero duration for
\* every other string.
C9_NilForEveryMovingWall ==
    call = "ParseDelay" =>
        IF IsMovingWall(args[1])
        THEN ret.err = "nil"
        ELSE ret.err = "unknown format" /\ ret.d = 0

\* C9 (amended): ParseDelay returns a nil error for every string of the form
\* '-' digits ('M' | 'Y') whose digits denote a number of at most 1<<63 - 1;
\* for such a string with a larger number it returns strconv's range error
\* with the zero duration; for every other string it returns the format
\* error with the zero duration.
C9_ParseDelayErrors ==
    call = "ParseDelay" =>
        IF IsMovingWall(args[1])
        THEN IF FitsInt(NumberOf(args[1]))
             THEN ret.err = "nil"
             ELSE ret.err = "range" /\ ret.d = 0
        ELSE ret.err = "unknown format" /\ ret.d = 0

C9_Witness ==
    /\ call = "ParseDelay"
    /\ IsMovingWall(args[1])
    /\ ~FitsInt(NumberOf(args[1]))
    /\ ret = [d |-> 0, err |-> "range"]

\* C10: whenever ParseDelay returns a nil error for '-nM' or '-nY', the
\* duration is exactly minus n times 720 hours, or minus n times 8760 hours,
\* for every magnitude of n.  (No duration reaches MaxDurationHours + 1
\* hours, so an n from (MaxDurationHours \div 720) + 1 on cannot meet it.)
C10_ExactHours ==
    (call = "ParseDelay" /\ ret.err = "nil") =>
        LET s    == args[1]
            lim  == (MaxDurationHours \div 720) + 1
            n    == ValueBelow(NumberOf(s), 0, lim)
            unit == IF s[Len(s)] = "Y" THEN 8760 ELSE 720
        IN  n < lim /\ ret.d = -(n * unit)

\* C11: whenever Entitlement.Boundary returns without error, the returned
\* time is the time of the call plus the delay Entitlement.Delay gives, and
\* is never later than the time of the call, whatever FromDelay and ToDelay
\* are; when Delay fails, Boundary returns that error.
C11_BoundaryNotAfterNow ==
    call = "Boundary" =>
        LET e     == args[1]
            now   == args[2]
            delay == Delay(e)
        IN  IF ret.err = "nil"
            THEN delay.err = "nil" /\ ret.boundary = now + delay.d /\ ret.boundary <= now
            ELSE ret.err = delay.err /\ delay.err # "nil"

C11_Witness ==
    /\ call = "Boundary"
    /\ args[1].FromDelay = <<"-", "1", "1", "2", "7", "3", "0", "1", "0", "2", "6", "7", "2", "6", "6", "9", "4", "8", "2", "1", "M">>
    /\ ret.err = "nil"
    /\ ret.boundary = args[2] - 16

(***************************************************************************)
(* Properties of the conversions to the intermediate schema.               *)
(***************************************************************************)

ToIntermediateSchemaCalls ==
    {"genios.ToIntermediateSchema", "genderopen.ToIntermediateSchema",
     "crossref.ToIntermediateSchema"}

\* The identifier 'ai-<source id>-<encoded record id>' an adapter composes
\* for the record of the call.
ComposedID ==
    IF call = "genios.ToIntermediateSchema" THEN FincID(args[1])
    ELSE IF call = "genderopen.ToIntermediateSchema"
    THEN <<"a", "i", "-", "1", "6", "2", "-">> \o RawURLEncoding(args[1].HeaderIdentifier)
    ELSE RecordID(args[1])

\* C12: no ToIntermediateSchema of genios, genderopen or crossref returns a
\* nil error for a record whose composed identifier is longer than
\* span.KeyLengthLimit: the result is always a Skip error.
C12_LongIDSkipped ==
    (call \in ToIntermediateSchemaCalls /\ Len(ComposedID) > KeyLengthLimit)
        => ret.err = "skip"

\* A four-digit year as time.Parse("2006", ...) reads it.
IsYearText(s) == Len(s) = 4 /\ AllDigits(s)

\* The cleaned Year and the first eight characters of the cleaned Date of a
\* genios document.
CleanYear(doc) == TrimSpace(rawDateReplacer(doc.Year))
CleanDate(doc) ==
    LET raw == TrimSpace(rawDateReplacer(doc.RawDate))
    IN  IF Len(raw) > 8 THEN SubSeq(raw, 1, 8) ELSE raw

\* The first entry of the date-parts denotes a date: one to three numbers,
\* a year of at most four digits, a month, a day of that month.
DenotesDate(df) ==
    /\ Len(df.DateParts) > 0
    /\ LET parts == df.DateParts[1] IN
          /\ Len(parts) \in 1..3
          /\ parts[1] \in 0..9999
          /\ Len(parts) >= 2 => parts[2] \in 1..12
          /\ Len(parts) = 3 => parts[3] \in 1..DaysIn(parts[2], parts[1])

\* The date the first entry of the date-parts denotes.
DenotedDate(df) ==
    LET parts == df.DateParts[1]
    IN  [y |-> parts[1],
         m |-> IF Len(parts) >= 2 THEN parts[2] ELSE 1,
         d |-> IF Len(parts) = 3 THEN parts[3] ELSE 1]

\* The record of the call has no date that can be parsed, whatever fallback
\* is tried.
DateUnparseable ==
    IF call = "genios.ToIntermediateSchema"
    THEN /\ ~IsYearText(CleanYear(args[1]))
         /\ TimeParse(LayoutCompact, CleanDate(args[1])).err # "nil"
    ELSE IF call = "genderopen.ToIntermediateSchema"
    THEN Len(args[1].Date) < 4 \/ ~IsYearText(SubSeq(args[1].Date, 1, 4))
    ELSE ~DenotesDate(args[1].Issued)

\* C13: a record whose date cannot be parsed after all fallbacks (empty,
\* shorter than four characters, first four characters not a year, crossref
\* without issued date-parts) gets a Skip error from every adapter, never a
\* nil error and never an error of another kind.
C13_UnparseableDateSkipped ==
    (call \in ToIntermediateSchemaCalls /\ DateUnparseable) => ret.err = "skip"

\* A year as yearPattern describes it: four digits, the first 1 or 2.
IsPatternYear(s) == IsYearText(s) /\ s[1] \in {"1", "2"}

\* C14: genios Document.Date returns 1 January of the cleaned Year when that
\* is a four-digit year; in every other case (Year empty or with characters
\* around the four digits) it returns the date of the first eight characters
\* of the cleaned Date, and an error only when that fails too.
C14_YearElseDate ==
    call = "Document.Date" =>
        LET doc == args[1] IN
        IF IsPatternYear(CleanYear(doc))
        THEN ret = [t |-> [y |-> Num(CleanYear(doc)), m |-> 1, d |-> 1], err |-> "nil"]
        ELSE ret = TimeParse(LayoutCompact, CleanDate(doc))

\* C15: crossref DateField.Date returns a non-nil error whenever the
\* date-parts give no valid date (no entry, a first entry of no or more than
\* three numbers, numbers that are no date), and a nil error only together
\* with the date the first entry denotes.
C15_ErrorUnlessValidDate ==
    call = "DateField.Date" =>
        IF DenotesDate(args[1])
        THEN ret = [t |-> DenotedDate(args[1]), err |-> "nil"]
        ELSE ret.err # "nil"

\* The date of the source record of the call, when it has one.
SourceHasDate ==
    IF call = "genios.ToIntermediateSchema"
    THEN IsYearText(CleanYear(args[1])) \/ TimeParse(LayoutCompact, CleanDate(args[1])).err = "nil"
    ELSE IF call = "genderopen.ToIntermediateSchema"
    THEN Len(args[1].Date) >= 4 /\ IsYearText(SubSeq(args[1].Date, 1, 4))
    ELSE DenotesDate(args[1].Issued)

SourceDate ==
    IF call = "genios.ToIntermediateSchema"
    THEN IF IsPatternYear(CleanYear(args[1]))
         THEN [y |-> Num(CleanYear(args[1])), m |-> 1, d |-> 1]
         ELSE TimeParse(LayoutCompact, CleanDate(args[1])).t
    ELSE IF call = "genderopen.ToIntermediateSchema"
    THEN [y |-> Num(SubSeq(args[1].Date, 1, 4)), m |-> 1, d |-> 1]
    ELSE DenotedDate(args[1].Issued)

\* YYYY-MM-DD with leading zeros.
IsoText(t) ==
    LET two(n) == IF n < 10 THEN <<"0">> \o NatDigits(n) ELSE NatDigits(n)
        four(n) == Zeros(4 - Len(NatDigits(n))) \o NatDigits(n)
    IN  four(t.y) \o <<"-">> \o two(t.m) \o <<"-">> \o two(t.d)

\* C16: every record an adapter returns with a nil error has a RawDate that
\* is the zero-padded YYYY-MM-DD of a date of the source record: a year
\* alone gives 1 January, a year and a month the first day of the month.
C16_RawDateFromSource ==
    (call \in ToIntermediateSchemaCalls /\ ret.err = "nil")
        => (SourceHasDate /\ ret.out.RawDate = IsoText(SourceDate))

\* A positive integer in decimal digits.
IsPositiveText(s) == s # <<>> /\ AllDigits(s) /\ \E k \in 1..Len(s) : s[k] # "0"

\* The three page fields are empty together, or are a start and an end that
\* are positive integers, the end not below the start, and a count that is
\* not negative.
PagesAllOrNothing(start, end, count) ==
    \/ start = <<>> /\ end = <<>> /\ count = <<>>
    \/ /\ IsPositiveText(start)
       /\ IsPositiveText(end)
       /\ ~IsNeg64(Sub64(AtoiSigned(end).val, AtoiSigned(start).val))
       /\ count # <<>> /\ AllDigits(count)

\* C17: the page fields are all or nothing: genderopen parsePages and the
\* crossref page fields written to StartPage, EndPage and PageCount are
\* filled only for '<start>-<end>' with positive integers and an end not
\* below the start; otherwise all three are empty, and PageCount is never
\* negative.
C17_PagesAllOrNothing ==
    /\ call = "parsePages" => PagesAllOrNothing(ret.start, ret.end, ret.total)
    /\ (call \in {"genderopen.ToIntermediateSchema", "crossref.ToIntermediateSchema"}
            /\ ret.err = "nil")
         => PagesAllOrNothing(ret.out.StartPage, ret.out.EndPage, ret.out.PageCount)

\* The number of the fields URL, ISSN and DOI of the output that hold the
\* identifier v.
Destinations(v, output) ==
    (IF \E k \in 1..Len(output.URL) : output.URL[k] = v THEN 1 ELSE 0)
    + (IF HasPrefix(v, <<"u", "r", "n", ":", "I", "S", "S", "N", ":">>)
          /\ \E k \in 1..Len(output.ISSN) : output.ISSN[k] = Replace(v, <<"u", "r", "n", ":", "I", "S", "S", "N", ":">>, <<>>, 1)
       THEN 1 ELSE 0)
    + (IF HasPrefix(v, <<"h", "t", "t", "p", ":", "/", "/", "d", "x", ".", "d", "o", "i", ".", "o", "r", "g", "/">>)
          /\ output.DOI = Replace(v, <<"h", "t", "t", "p", ":", "/", "/", "d", "x", ".", "d", "o", "i", ".", "o", "r", "g", "/">>, <<>>, -1)
       THEN 1 ELSE 0)

\* C18: genderopen ToIntermediateSchema puts each dc:identifier into at most
\* one of the URL list, the ISSN list and the DOI; an identifier that
\* matches no prefix is dropped without an error.
C18_IdentifierInOneField ==
    call = "genderopen.ToIntermediateSchema" =>
        \A k \in 1..Len(args[1].Identifier) :
            Destinations(args[1].Identifier[k], ret.out) <= 1

NoValueTwice(q) == \A a, b \in 1..Len(q) : a # b => q[a] # q[b]

\* The values of q, each at the position of its first appearance.
RECURSIVE FirstAppearances(_)
FirstAppearances(q) ==
    IF q = <<>> THEN <<>>
    ELSE LET front == SubSeq(q, 1, Len(q) - 1)
             last == q[Len(q)]
         IN  IF \E k \in 1..Len(front) : front[k] = last
             THEN FirstAppearances(front)
             ELSE FirstAppearances(front) \o <<last>>

\* C19: in the output of genios ToIntermediateSchema the lists Authors,
\* ISSN and Subjects hold no value twice, and Authors has each name at the
\* position of its first appearance.
C19_NoDuplicates ==
    (call = "genios.ToIntermediateSchema" /\ ret.err = "nil") =>
        /\ NoValueTwice(ret.out.Authors)
        /\ NoValueTwice(ret.out.ISSN)
        /\ NoValueTwice(ret.out.Subjects)
        /\ ret.out.Authors = FirstAppearances(Authors(args[1]))

\* The whitespace-trimmed tokens of the raw author fields, in the order of
\* the fields and of the tokens in each field.
RECURSIVE AuthorTokens(_)
AuthorTokens(raw) ==
    IF raw = <<>> THEN <<>>
    ELSE LET fields == FieldsFunc(Head(raw), AuthorDelimiters(Head(raw)))
         IN  [k \in 1..Len(fields) |-> TrimSpace(fields[k])] \o AuthorTokens(Tail(raw))

\* q is p with some elements left out.
RECURSIVE IsSubsequence(_, _)
IsSubsequence(q, p) ==
    IF q = <<>> THEN TRUE
    ELSE IF p = <<>> THEN FALSE
    ELSE IF Head(q) = Head(p) THEN IsSubsequence(Tail(q), Tail(p))
    ELSE IsSubsequence(q, Tail(p))

NoiseTexts == {<<"w", "w", "w", ".">>, <<"h", "t", "t", "p", ":">>, <<"&", "q", "u", "o", "t">>, <<"p", "a", "r", "t", " ", "1", " ", "o", "f">>, <<"p", "a", "r", "t", " ", "2", " ", "o", "f">>,
               <<"C", "o", "p", "y", "r", "i", "g", "h", "t">>, <<"(", "c", ")">>, <<"A", "l", "l", " ", "r", "i", "g", "h", "t", "s", " ", "r", "e", "s", "e", "r", "v", "e", "d">>, <<"h", "e", " ", "s", "a", "i", "d">>}

\* C20: every name genios Document.Authors returns is a whitespace-trimmed
\* token of one raw author field, is neither empty nor 'n.n.', is at least
\* minAuthorLength and at most maxAuthorLength long, contains none of the
\* noise texts and is the whole token; the names keep the order of the raw
\* fields and of the tokens.
C20_AuthorNamesClean ==
    call = "Document.Authors" =>
        /\ IsSubsequence(ret.authors, AuthorTokens(args[1].RawAuthors))
        /\ \A k \in 1..Len(ret.authors) :
              /\ ret.authors[k] # <<>>
              /\ ret.authors[k] = TrimSpace(ret.authors[k])
              /\ ToLower(ret.authors[k]) # <<"n", ".", "n", ".">>
              /\ Len(ret.authors[k]) >= minAuthorLength
              /\ Len(ret.authors[k]) <= maxAuthorLength
              /\ \A noise \in NoiseTexts : ~Contains(ret.authors[k], noise)

C20_Witness ==
    /\ call = "Document.Authors"
    /\ args[1].RawAuthors = <<<<" ", "D", "o", "e", ",", " ", "J", ".", " ", ";", " ", "n", ".", "n", ".", "/", " ", "N", ".", "N", ".", " ", ";", "a", "b", "c", ";", ";", " ", "w", "w", "w", ".", "e", "x", "a", "m", "p", "l", "e", ".", "c", "o", "m", " ", "/", " ", "R", "o", "e", ",", " ", "R", ".">>>>
    /\ ret.authors = <<<<"D", "o", "e", ",", " ", "J", ".">>, <<"R", "o", "e", ",", " ", "R", ".">>>>

(***************************************************************************)
(* Properties of HoldingsMap.                                              *)
(***************************************************************************)

\* The holding elements of the document that the decoder reaches: those up
\* to the first one that is not well-formed.
RECURSIVE ElementsRead(_)
ElementsRead(elements) ==
    IF elements = <<>> THEN <<>>
    ELSE IF Head(elements).tag = "holding" /\ DecodeElement(Head(elements)).err = "syntax"
    THEN <<Head(elements)>>
    ELSE <<Head(elements)>> \o ElementsRead(Tail(elements))

Malformed(el) == el.tag = "holding" /\ DecodeElement(el).err # "nil"
WellFormed(el) == el.tag = "holding" /\ DecodeElement(el).err = "nil"

\* The ISSN values of a holding element.
IssnsOf(el) == {el.children[k].v : k \in {j \in 1..Len(el.children) :
                                              el.children[j].kind \in {"p-issn", "e-issn"}}}

\* C21: HoldingsMap skips a malformed holding: a holding element that fails
\* to decode has no entry in the map, not even under the ISSNs decoded
\* before the failure, and the well-formed holding elements after it are in
\* the map under each of their ISSNs.
C21_MalformedHoldingSkipped ==
    call = "HoldingsMap" =>
        LET elements == args[1] IN
        \A k \in 1..Len(elements) :
            /\ Malformed(elements[k]) =>
                   \A key \in DOMAIN ret.h : ret.h[key].EZBID # elements[k].id
            /\ WellFormed(elements[k]) => IssnsOf(elements[k]) \subseteq DOMAIN ret.h

\* The well-formed holding elements among those read, in document order.
HoldingsRead(elements) == SelectSeq(ElementsRead(elements), WellFormed)

\* C26: the keys of the map HoldingsMap returns are exactly the p-ISSN and
\* e-ISSN values of the holding elements read; every key maps to a holding
\* that lists the key in its PISSN or EISSN; of several holdings with the
\* same ISSN the one latest in the document is kept.
C26_KeysAreTheIssns ==
    call = "HoldingsMap" =>
        LET read == HoldingsRead(args[1]) IN
        /\ DOMAIN ret.h = UNION {IssnsOf(read[k]) : k \in 1..Len(read)}
        /\ \A key \in DOMAIN ret.h :
              /\ \E k \in 1..Len(ret.h[key].PISSN \o ret.h[key].EISSN) :
                    (ret.h[key].PISSN \o ret.h[key].EISSN)[k] = key
              /\ \E k \in 1..Len(read) :
                    /\ key \in IssnsOf(read[k])
                    /\ ret.h[key].EZBID = read[k].id
                    /\ \A j \in (k + 1)..Len(read) : key \notin IssnsOf(read[j])

(***************************************************************************)
(* Properties of the exporter.                                             *)
(***************************************************************************)

\* C23: Convert is a pure projection of the record: on an exporter value
\* that already holds the result of an earlier Convert it gives the same
\* fields as on a fresh value.
C23_ConvertIsProjection ==
    call = "Convert" => ret.reused = ret.fresh

(***************************************************************************)
(* Properties of repeated conversion.                                      *)
(***************************************************************************)

\* C22: converting the same source record twice with the same adapter gives
\* two results that are equal field by field, the order of every list field
\* and the error outcome included.
C22_SameRecordSameResult ==
    call \in {"genios.ToIntermediateSchema twice",
              "genderopen.ToIntermediateSchema twice"}
        => ret.first = ret.second

(***************************************************************************)
(* Properties of ReadLines.                                                *)
(***************************************************************************)

\* The lines of a text: the pieces between newlines; a text that ends in a
\* newline has no line after it.
TextLines(content) ==
    LET pieces == Split(content, "\n") IN
    IF pieces[Len(pieces)] = <<>> THEN SubSeq(pieces, 1, Len(pieces) - 1)
    ELSE pieces

NonEmptyText(s) == s # <<>>

TrimmedLines(content) ==
    LET all == TextLines(content) IN
    SelectSeq([k \in 1..Len(all) |-> TrimSpace(all[k])], NonEmptyText)

\* C24: ReadLines returns, in file order, the trimmed form of every line
\* whose trimmed form is not empty, the last line of a file without a final
\* newline included.
C24_EveryNonEmptyLine ==
    (call = "ReadLines" /\ ret.err = "nil")
        => ret.lines = TrimmedLines(args[1].content)

(***************************************************************************)
(* Properties of the genderopen journal and book titles.                   *)
(***************************************************************************)

\* The record counts as a journal article: an identifier with the prefix
\* urn:ISSN:, or a title that is one of the keywords, letter case aside.
JournalCues(record) ==
    \/ \E k \in 1..Len(record.Identifier) :
          HasPrefix(record.Identifier[k], <<"u", "r", "n", ":", "I", "S", "S", "N", ":">>)
    \/ ToLower(record.Title) \in {<<"z", "e", "i", "t", "s", "c", "h", "r", "i", "f", "t">>, <<"j", "o", "u", "r", "n", "a", "l">>}

\* The trimmed text between the first ':' of s and the next '(', or s when
\* it has no ':'.
TitleInCitation(s) ==
    IF \A k \in 1..Len(s) : s[k] # ":" THEN s
    ELSE LET colon == CHOOSE k \in 1..Len(s) :
                          s[k] = ":" /\ \A j \in 1..(k - 1) : s[j] # ":"
             stop  == CHOOSE p \in (colon + 1)..(Len(s) + 1) :
                          /\ p = Len(s) + 1 \/ s[p] = "("
                          /\ \A j \in (colon + 1)..(p - 1) : s[j] # "("
         IN  TrimSpace(SubSeq(s, colon + 1, stop - 1))

\* dc:source with every newline turned into a space.
OnOneLine(s) == [k \in 1..Len(s) |-> IF s[k] = "\n" THEN " " ELSE s[k]]

C27_FailedFillAlwaysReported ==
    rkind \in OnceKinds =>
        /\ fills <= 1
        /\ fillErr \notin {"none", "nil"} =>
              \A k \in 1..Len(results) : results[k].err = fillErr

\* C28: after the fill of a ZipOrPlainLinkReader has run to its end, the
\* temporary file that SavedLink.Save created no longer exists.
C28_TempFileRemoved ==
    (rkind = "ZipOrPlainLinkReader" /\ once = "done") => tmpFile # "exists"

\* C29: FileReader holds at most one open handle, the handle is closed when
\* Read returns io.EOF, and every Read after the one that returned io.EOF
\* returns zero bytes and io.EOF.
C29_ContentDeliveredOnce ==
    rkind = "FileReader" =>
        /\ handles <= 1
        /\ (results # <<>> /\ results[Len(results)].err = "EOF") => handles = 0
        /\ \A j \in 1..Len(results) : \A k \in (j + 1)..Len(results) :
              results[j].err = "EOF" =>
                  results[k].err = "EOF" /\ results[k].data = <<>>

(***************************************************************************)
(* Properties of ISSN.                                                     *)
(***************************************************************************)

\* Four digits, a hyphen, three digits and a final digit or X.
IsNormalISSN(t) ==
    /\ Len(t) = 9
    /\ \A k \in {1, 2, 3, 4, 6, 7, 8} : t[k] \in Digits
    /\ t[5] = "-"
    /\ t[9] \in Digits \cup {"X"}

\* C30: for every s that validates, String() is four digits, a hyphen,
\* three digits and a final digit or X; that text validates again and
\* String() leaves it unchanged.
C30_StringIsNormalForm ==
    (call = "ISSN.String" /\ ret.valid = "nil") =>
        /\ IsNormalISSN(ret.str)
        /\ ret.strvalid = "nil"
        /\ ret.strstr = ret.str

\* A valid ISSN written with a small x, a space and a misplaced hyphen.
C30_Witness ==
    /\ call = "ISSN.String"
    /\ ret.valid = "nil"
    /\ args[1] = <<"1", "2", "-", "3", "4", " ", "5", "6", "7", "x">>
    /\ ret.str = <<"1", "2", "3", "4", "-", "5", "6", "7", "X">>

====
